---- MODULE Spec2Model ----
(***************************************************************************)
(* A model of the instanced render-batch builder and of the GPU resource   *)
(* caches of the WebGPU scene-graph renderer: GLTFScene.build,             *)
(* GLTFScene.updateBuffers and GLTFScene.render of the glTF loader, the    *)
(* layout requests of Mesh, and the resource caches they go through;       *)
(* GLTFLoaderV2.load, which parses the container into the scene; and       *)
(* MipMap.extractMipmap.                                                   *)
(*                                                                         *)
(* JSON objects are sequences of <<name, value>> pairs in insertion order  *)
(* (names and values are strings), Maps are sequences in insertion order,  *)
(* GPU objects are the numbers the device hands out at creation.           *)
(***************************************************************************)
EXTENDS Integers, Sequences, FiniteSets, TLC

\* The scene never holds more than MaxNodes nodes.
MaxNodes == 2
\* GLTFScene.build is called at most MaxBuilds times on one scene object.
MaxBuilds == 2
\* Mesh.build is called at most MaxMeshBuilds times on one Mesh.
MaxMeshBuilds == 1
\* extractMipmap and generateMipmaps are called at most MaxExtracts times in all
\* on one MipMap.
MaxExtracts == 2
\* Mesh.onChange is called at most MaxChanges times on one Mesh.
MaxChanges == 2
\* An EffectComposer has at most MaxPasses passes and renders at most MaxFrames
\* frames.
MaxPasses == 3
MaxFrames == 2

VARIABLES
    a_meshs,            \* GLTFScene.a_meshs: the JSON primitives of every mesh
    nodes,              \* the GLTFNode objects: mesh, children, transform
    children,           \* GLTFScene.children: the root nodes
    renderPipelines,    \* GLTFScene.renderPipelines: Map<string, RenderPipeline>
    nodeBindGroupLayout,\* GLTFScene.nodeBindGroupLayout
    instanceBindGroup,  \* GLTFScene.instanceBindGroup
    instanceBuffer,     \* GLTFScene.instanceBuffer
    primitiveInstances, \* GLTFScene.primitiveInstances
    record,             \* GLTFScene.record (CreateAndSetRecord)
    lastRecord,         \* the record the last render call returned
    cached,             \* options.cached: the layout, pipeline and solid colour texture caches
    created,            \* the number of objects the GPUDevice has created
    gpuBuffers,         \* the instance buffers the scene still refers to, with their contents
    uniform,            \* MeshPhysicalMaterial.uniform of every material
    texturesView,       \* the texture views the last build of every material returned
    thrown,             \* the exception the last call ended with, or "none"
    lastOp,             \* the last call made on the scene
    renderPass,         \* the commands the last render call encoded
    writes,             \* the arrayBuffer.set calls of the last build or updateBuffers
    uploads,            \* what the updateBuffers calls made in succession wrote to the queue
    builds,             \* the number of build calls so far
    meshes,             \* the Mesh objects built with the same options
    container,          \* the binary container GLTFLoaderV2.load is given
    loadState,          \* "pending", "returned" (a scene) or "failed" (an error)
    loadError,          \* the message of the error load failed with
    parsed,             \* the number of objects of every class load has created
    texture,            \* the source texture of extractMipmap
    target,             \* the target of extractMipmap: a texture and the mip levels
    mipmap,             \* the MipMap object, its compute pass and what it created
    bufferViews,        \* GLTFScene.bufferViews: flag, gpuBuffer and the buffers not destroyed
    composer,           \* the EffectComposer: its passes and what its last render call did
    attributeLists,     \* the attributeAccessors two GLTFPrimitive constructors are given
    primitiveObjects    \* what setPrimitive made of each: bufferLayout and gpuBuffers

sceneVars == <<a_meshs, nodes, children, renderPipelines, nodeBindGroupLayout,
               instanceBindGroup, instanceBuffer, primitiveInstances, record,
               lastRecord, cached, created, gpuBuffers, uniform, texturesView, thrown,
               lastOp, renderPass, writes, uploads, builds>>

meshVars == <<meshes>>

loaderVars == <<container, loadState, loadError, parsed>>

mipVars == <<texture, target, mipmap>>

viewVars == <<bufferViews>>

composerVars == <<composer>>

layoutVars == <<attributeLists, primitiveObjects>>

----------------------------------------------------------------------------
(* JSON *)

\* obj[name], "undefined" when the object has no such field.
GetField(obj, name) ==
    IF \E i \in DOMAIN obj : obj[i][1] = name
    THEN obj[CHOOSE i \in DOMAIN obj : obj[i][1] = name][2]
    ELSE "undefined"

\* JSON.stringify of an object: its fields in insertion order, a field whose
\* value is undefined left out.
RECURSIVE Stringify(_)
Stringify(obj) ==
    IF obj = <<>> THEN <<>>
    ELSE IF Head(obj)[2] = "undefined" THEN Stringify(Tail(obj))
    ELSE <<Head(obj)[1], Head(obj)[2]>> \o Stringify(Tail(obj))

\* Two JSON objects are structurally equal up to field order.
StructurallyEqual(o1, o2) ==
    {o1[i] : i \in DOMAIN o1} = {o2[i] : i \in DOMAIN o2}

BoolStr(b) == IF b THEN "true" ELSE "false"

----------------------------------------------------------------------------
(* The loaded container: json.materials and the primitives of json.meshes *)

\* json.materials, by index.
MaterialJson ==
    ("0" :> << <<"alphaMode", "OPAQUE">>, <<"baseColorTexture", "0">> >>) @@
    ("1" :> << <<"baseColorTexture", "0">>, <<"alphaMode", "OPAQUE">> >>) @@
    ("2" :> << <<"alphaMode", "OPAQUE">>, <<"baseColorTexture", "1">> >>) @@
    ("3" :> << <<"alphaMode", "BLEND">>, <<"baseColorTexture", "0">> >>) @@
    ("4" :> << <<"alphaMode", "OPAQUE">> >>)

\* JSON primitives: attribute accessors and material.
PrimA == << <<"attributes", "acc1">>, <<"material", "0">> >>
PrimB == << <<"attributes", "acc2">>, <<"material", "0">> >>
PrimC == << <<"attributes", "acc1">>, <<"material", "2">> >>
PrimR == << <<"attributes", "acc1">>, <<"material", "1">> >>
PrimD == << <<"attributes", "acc1">>, <<"material", "3">> >>
PrimL == << <<"attributes", "acc3">>, <<"material", "0">> >>
PrimN == << <<"attributes", "acc1">> >>
PrimI == << <<"attributes", "acc1">>, <<"indices", "idx6">>, <<"material", "0">> >>
PrimM == << <<"attributes", "acc2">>, <<"material", "0">>, <<"mode", "9">> >>
PrimU == << <<"attributes", "acc4">>, <<"material", "0">> >>

\* The json.meshes of the containers loaded: each mesh is its list of primitives.
MeshLists == {
    << <<PrimA>> >>,
    << <<PrimA, PrimB>> >>,
    << <<PrimA>>, <<PrimB>> >>,
    << <<PrimA, PrimC>> >>,
    << <<PrimC>>, <<PrimA>> >>,
    << <<PrimA, PrimA>> >>,
    << <<PrimA>>, <<PrimA>> >>,
    << <<PrimA, PrimR>> >>,
    << <<PrimA, PrimD>> >>,
    << <<PrimL>>, <<PrimA>> >>,
    << <<PrimA, PrimN>> >>,
    << <<PrimN>>, <<PrimA>> >> }

\* The attribute names behind an "attributes" object of the container.
AttributeNames(attributes) ==
    IF attributes = "acc3" THEN {"POSITION", "NORMAL"}
    ELSE IF attributes = "acc4" THEN {"POSITION", "_CUSTOM"}
    ELSE {"POSITION"}

\* GLTFPrimitive.bufferLayout, as setPrimitive computes it from the accessors.
BufferLayoutOf(attributes) ==
    IF attributes = "acc3" THEN "stride24:loc0,loc1" ELSE "stride12:loc0"

\* GLTFPrimitive.vertexCount: the count of the POSITION accessor.
VertexCountOf(attributes) ==
    IF attributes = "acc2" THEN 4 ELSE 3

\* GLTFAccessor.count of an index accessor of the container.
IndexCountOf(indices) ==
    IF indices = "idx6" THEN 6 ELSE 3

\* The primitives of the scene in mesh order: <<mesh, primitive>> indices.
RECURSIVE PrimitivesFrom(_, _)
PrimitivesFrom(meshs, m) ==
    IF m > Len(meshs) THEN <<>>
    ELSE [i \in 1..Len(meshs[m]) |-> <<m, i>>] \o PrimitivesFrom(meshs, m + 1)

\* A walk of the primitives from the last mesh to the first: not the order
\* of build.
PrimitivesReversed(meshs) ==
    [i \in 1..Len(PrimitivesFrom(meshs, 1)) |->
        PrimitivesFrom(meshs, 1)[Len(PrimitivesFrom(meshs, 1)) + 1 - i]]

Primitives(meshs) == PrimitivesFrom(meshs, 1)

PrimJson(meshs, p) == meshs[p[1]][p[2]]

----------------------------------------------------------------------------
(* Materials and primitives *)

\* GLTFMaterial.alphaMode and GLTFMaterial.doubleSided, with their defaults.
AlphaMode(mjson) ==
    IF GetField(mjson, "alphaMode") = "undefined" THEN "OPAQUE"
    ELSE GetField(mjson, "alphaMode")

DoubleSided(mjson) ==
    IF GetField(mjson, "doubleSided") = "undefined" THEN "false"
    ELSE GetField(mjson, "doubleSided")

\* The bind group layout entries MeshPhysicalMaterial.build describes: a uniform
\* buffer, five textures and a sampler, from bindingStart on.
MaterialLayoutEntries(bindingStart) ==
    << << <<"binding", ToString(bindingStart)>>, <<"visibility", "FRAGMENT">>,
          <<"buffer.type", "uniform">> >> >>
    \o [k \in 1..5 |->
          << <<"binding", ToString(bindingStart + k)>>, <<"visibility", "FRAGMENT">>,
             <<"texture.viewDimension", "2d">> >>]
    \o << << <<"binding", ToString(bindingStart + 6)>>, <<"visibility", "FRAGMENT">>,
             <<"sampler.type", "filtering">> >> >>

\* The fragment shader context MeshPhysicalMaterial.build returns;
\* useAlphaCutoff is set by the GLTFMaterial constructor.
FragmentContext(mjson) ==
    << <<"shaderContext.fragment.polyfill", "false">>,
       <<"shaderContext.fragment.useAlphaCutoff",
         BoolStr(GetField(mjson, "alphaMode") = "MASK")>> >>

\* The layout entries GLTFScene.build asks for the node bind group layout.
NodeLayoutEntries ==
    << << <<"binding", "0">>, <<"visibility", "VERTEX">>,
          <<"buffer.type", "read-only-storage">> >> >>

\* GLTFPrimitive.buildVertex: the pipeline arguments and the vertex shader context
\* of a primitive whose material has the JSON mjson.
VertexArgs(pjson, mjson) ==
    << <<"primitive.topology",
         IF GetField(pjson, "mode") = "5" THEN "triangle-strip" ELSE "triangle-list">>,
       <<"bufferLayout", BufferLayoutOf(GetField(pjson, "attributes"))>>,
       <<"alphaMode", AlphaMode(mjson)>>,
       <<"doubleSided", DoubleSided(mjson)>> >>

VertexContext(pjson) ==
    << <<"shaderContext.vertex.useNormal",
         BoolStr("NORMAL" \in AttributeNames(GetField(pjson, "attributes")))>>,
       <<"shaderContext.vertex.useTexcoord",
         BoolStr("TEXCOORD_0" \in AttributeNames(GetField(pjson, "attributes")))>> >>

\* The key GLTFScene.build groups the nodes of a primitive under.
PrimitiveNodesKey(pjson) == Stringify(pjson)

\* A material key that looks at the alpha mode only: not the key of build.
MaterialKeyByAlphaMode(mjson) ==
    Stringify(<< <<"alphaMode", GetField(mjson, "alphaMode")>> >>)

\* The key GLTFScene.build deduplicates materials under.
MaterialKey(mjson) == Stringify(mjson)

\* A pipeline key that also holds the JSON of the material: not the key of
\* build.
PipelineKeyWithMaterial(pjson, mjson) ==
    Stringify(VertexArgs(pjson, mjson) \o VertexContext(pjson) \o FragmentContext(mjson)
              \o mjson)

\* The key GLTFScene.build deduplicates pipelines under.
PipelineKey(pjson, mjson) ==
    Stringify(VertexArgs(pjson, mjson) \o VertexContext(pjson) \o FragmentContext(mjson))

----------------------------------------------------------------------------
(* The resource caches (scene/cache) *)

\* The canonical form of a descriptor: a JSON object as the set of its defined
\* fields, a list of objects as the list of their canonical forms.
Canonicalize(obj) == {obj[i] : i \in {j \in DOMAIN obj : obj[j][2] # "undefined"}}

CanonicalizeList(objs) == [i \in DOMAIN objs |-> Canonicalize(objs[i])]

CacheHas(cache, key) == \E i \in DOMAIN cache : cache[i].key = key

CacheHandle(cache, key) == cache[CHOOSE i \in DOMAIN cache : cache[i].key = key].handle

\* ResourceCache.get: the handle cached under the key, created on the first
\* request. n is the number of objects the device has created so far.
ResourceGet(cache, key, n) ==
    IF CacheHas(cache, key)
    THEN [cache |-> cache, handle |-> CacheHandle(cache, key), created |-> n]
    ELSE [cache |-> Append(cache, [key |-> key, handle |-> n + 1]),
          handle |-> n + 1, created |-> n + 1]

----------------------------------------------------------------------------
(* MeshPhysicalMaterial.build *)

\* The textures getter: the texture of the material (a), the solid colour
\* texture that stands in for it (d) and its format (f).
Textures ==
    << [a |-> "baseColorTexture", d |-> "opaqueWhiteTexture", f |-> "defaultFormat-srgb"],
       [a |-> "normalTexture", d |-> "defaultNormalTexture", f |-> "defaultFormat"],
       [a |-> "metallicRoughnessTexture", d |-> "opaqueWhiteTexture", f |-> "defaultFormat"],
       [a |-> "emissiveTexture", d |-> "transparentBlackTexture", f |-> "defaultFormat-srgb"],
       [a |-> "occlusionTexture", d |-> "transparentBlackTexture", f |-> "defaultFormat"] >>

SolidColorTextureDescriptor(t) == << <<"format", t.f>>, <<"type", t.d>> >>

\* A request that creates a texture whether or not the cache holds one: not
\* the request of MeshPhysicalMaterial.build.
SolidColorTextureGetUncached(cache, t, n) ==
    [cache |-> Append(cache, [key |-> Canonicalize(SolidColorTextureDescriptor(t)),
                              handle |-> n + 1]),
     handle |-> n + 1, created |-> n + 1]

\* cached.solidColorTexture.get({ format: f, type: d })
SolidColorTextureGet(cache, t, n) ==
    ResourceGet(cache, Canonicalize(SolidColorTextureDescriptor(t)), n)

\* The view of the solid colour texture the cache returned.
WithDefaultView(r, got) ==
    [cache |-> got.cache, created |-> got.created, uniform |-> r.uniform,
     views |-> Append(r.views, [default |-> TRUE, texture |-> got.handle, index |-> ""])]

\* this.textures.map(...): the view of the material's own texture where it has
\* one, of the cached solid colour texture where it has none.
RECURSIVE TexturesView(_, _, _)
TexturesView(r, mjson, ts) ==
    IF ts = <<>> THEN r
    ELSE IF GetField(mjson, Head(ts).a) # "undefined"
    THEN TexturesView([r EXCEPT !.views = Append(@, [default |-> FALSE, texture |-> 0,
                                                     index |-> GetField(mjson, Head(ts).a)])],
                      mjson, Tail(ts))
    ELSE TexturesView(WithDefaultView(r, SolidColorTextureGet(r.cache, Head(ts), r.created)),
                      mjson, Tail(ts))

\* MeshPhysicalMaterial.build of the material with the JSON mjson: a new uniform
\* buffer, then the texture views. cache is cached.solidColorTexture.
MeshPhysicalMaterialBuild(cache, mjson, n) ==
    TexturesView([cache |-> cache, created |-> n + 1, uniform |-> n + 1, views |-> <<>>],
                 mjson, Textures)

----------------------------------------------------------------------------
(* GLTFScene: traversal and instance positions *)

\* The nodes in the order GLTFScene.traverse calls the callback on them.
RECURSIVE TraverseNode(_, _), TraverseNodes(_, _)
\* A walk that calls the callback on a node after its children: not the walk
\* of traverseNode.
TraverseNodePostOrder(ns, n) == TraverseNodes(ns, ns[n].children) \o <<n>>

TraverseNode(ns, n) == <<n>> \o TraverseNodes(ns, ns[n].children)

TraverseNodes(ns, cs) ==
    IF cs = <<>> THEN <<>>
    ELSE TraverseNode(ns, Head(cs)) \o TraverseNodes(ns, Tail(cs))

Traverse(ns, roots) == TraverseNodes(ns, roots)

\* The callback of the traversal on one node: the (node, primitive) references
\* it registers, one for every JSON primitive of the node's mesh.
NodeReferences(meshs, ns, n) ==
    IF ns[n].a_mesh = 0 THEN <<>>
    ELSE [i \in 1..Len(meshs[ns[n].a_mesh]) |->
            [node |-> n, key |-> PrimitiveNodesKey(meshs[ns[n].a_mesh][i])]]

RECURSIVE References(_, _, _)
References(meshs, ns, visit) ==
    IF visit = <<>> THEN <<>>
    ELSE NodeReferences(meshs, ns, Head(visit)) \o References(meshs, ns, Tail(visit))

MapHas(m, key) == \E i \in DOMAIN m : m[i].key = key

MapIndex(m, key) == CHOOSE i \in DOMAIN m : m[i].key = key

\* primitiveNodesMap after the references were registered: for every key, in
\* the order the keys were first seen, the nodes pushed under it.
RECURSIVE RegisterNodes(_, _)
RegisterNodes(m, refs) ==
    IF refs = <<>> THEN m
    ELSE LET r == Head(refs) IN
         IF MapHas(m, r.key)
         THEN RegisterNodes([m EXCEPT ![MapIndex(m, r.key)].nodes = Append(@, r.node)],
                            Tail(refs))
         ELSE RegisterNodes(Append(m, [key |-> r.key, nodes |-> <<r.node>>]), Tail(refs))

\* One transform block of the instance buffer: a world matrix followed by a
\* world normal matrix.
ZeroBlock == <<[matrix |-> "zero", of |-> 0], [matrix |-> "zero", of |-> 0]>>

\* A block with the normal matrix first: not the block of the code.
TransformBlockSwapped(t) ==
    <<[matrix |-> "worldNormal", of |-> t], [matrix |-> "world", of |-> t]>>

TransformBlock(t) == <<[matrix |-> "world", of |-> t], [matrix |-> "worldNormal", of |-> t]>>

NoRange == [first |-> 0, count |-> 0, defined |-> FALSE]

\* The loop of setInstancePosForPrimitiveNodes over the nodes of a group: block b
\* of the array is arrayBuffer[b + 1], and a set beyond the end of the array
\* throws a RangeError.
WriteGroup(p, pi, ns, group, done) ==
    [pi     |-> [pi EXCEPT
                   !.arrayBuffer =
                       [b \in 1..Len(pi.arrayBuffer) |->
                           IF pi.offset < b /\ b <= pi.offset + done
                           THEN TransformBlock(ns[group[b - pi.offset]].transform)
                           ELSE pi.arrayBuffer[b]],
                   !.offset = IF done < Len(group) THEN @ ELSE @ + Len(group)],
     writes |-> [i \in 1..done |->
                   [primitive |-> p, block |-> pi.offset + i - 1, node |-> group[i]]],
     range  |-> IF done < Len(group) THEN NoRange
                ELSE [first |-> pi.offset, count |-> Len(group), defined |-> TRUE],
     thrown |-> IF done < Len(group) THEN "RangeError" ELSE "none"]

\* The number of nodes of a group of count nodes whose blocks fit into an array
\* of size blocks from the block first on.
BlocksThatFit(first, count, size) ==
    IF first + count <= size THEN count
    ELSE IF first >= size THEN 0 ELSE size - first

\* GLTFScene.setInstancePosForPrimitiveNodes on the primitive p with the JSON
\* pjson: the instances after the call, the arrayBuffer.set calls made, the range
\* returned, and the exception the call ended with. A primitive no node was
\* registered for has no group, and reading the length of its nodes throws.
SetInstancePosForPrimitiveNodes(p, pjson, pi, ns) ==
    IF ~MapHas(pi.matrices, PrimitiveNodesKey(pjson))
    THEN [pi |-> pi, writes |-> <<>>, range |-> NoRange, thrown |-> "TypeError"]
    ELSE WriteGroup(p, pi, ns,
                    pi.matrices[MapIndex(pi.matrices, PrimitiveNodesKey(pjson))].nodes,
                    BlocksThatFit(pi.offset,
                        Len(pi.matrices[MapIndex(pi.matrices, PrimitiveNodesKey(pjson))].nodes),
                        Len(pi.arrayBuffer)))

----------------------------------------------------------------------------
(* GLTFScene.build *)

NoInstances ==
    [total |-> 0, offset |-> 0, matrices |-> <<>>, arrayBuffer |-> <<>>, defined |-> FALSE]

NoBindGroup == [id |-> 0, layout |-> 0, buffer |-> 0]

\* The key of the pipeline cache: the shaders with their contexts, the pipeline
\* state and the bind group layouts.
PipelineDescriptor(pjson, mjson, layouts) ==
    [vertex     |-> Canonicalize(<<<<"code", "normal.wgsl">>>> \o VertexContext(pjson)),
     fragment   |-> Canonicalize(<<<<"code", "pbr-light.wgsl">>>> \o FragmentContext(mjson)),
     descriptor |-> Canonicalize(VertexArgs(pjson, mjson)),
     layouts    |-> layouts]

NodeLayoutKey == CanonicalizeList(NodeLayoutEntries)

MaterialLayoutKey == CanonicalizeList(MaterialLayoutEntries(0))

\* A request that creates a layout whether or not the cache holds one: not
\* the request of build.
NodeBindGroupLayoutGetUncached(cache, n) ==
    [cache |-> Append(cache, [key |-> NodeLayoutKey, handle |-> n + 1]),
     handle |-> n + 1, created |-> n + 1]

\* The node bind group layout GLTFScene.build asks the cache for.
NodeBindGroupLayoutGet(cache, n) == ResourceGet(cache, NodeLayoutKey, n)

\* The bind group layout GLTFScene.build asks the cache for, for a material.
MaterialBindGroupLayoutGet(cache, n) == ResourceGet(cache, MaterialLayoutKey, n)

HasMaterial(mpm, material) ==
    \E i \in DOMAIN mpm : mpm[i].material.bindGroup.id = material.bindGroup.id

MaterialIndex(mpm, material) ==
    CHOOSE i \in DOMAIN mpm : mpm[i].material.bindGroup.id = material.bindGroup.id

\* A material stage that never looks into materialCache, so that every
\* primitive gets a bind group of its own: not the stage of the code.
BuildMaterialNoCache(b, p, mi, built, layout) ==
    [b EXCEPT !.material = [groupIndex |-> 2,
                            bindGroup |-> [id |-> layout.created + 1,
                                           layout |-> layout.handle,
                                           buffer |-> built.uniform,
                                           textures |-> built.views],
                            primitive |-> p],
              !.record.bindGroupCount = @ + 1,
              !.cached.solidColorTexture = built.cache,
              !.cached.bindGroupLayout = layout.cache,
              !.created = layout.created + 1,
              !.uniform[mi] = built.uniform,
              !.texturesView[mi] = built.views]

\* The material stage of the mesh pass for the primitive p: a_primitive.build
\* has made the material build (built), the layout comes from the cache, and
\* the material of the key is taken from materialCache or made with a new bind
\* group. b.material is the RenderNode of the primitive.
BuildMaterial(b, p, mi, built, layout) ==
    IF MapHas(b.mc, MaterialKey(MaterialJson[mi]))
    THEN [b EXCEPT !.material = b.mc[MapIndex(b.mc, MaterialKey(MaterialJson[mi]))].material,
                   !.cached.solidColorTexture = built.cache,
                   !.cached.bindGroupLayout = layout.cache,
                   !.created = layout.created,
                   !.uniform[mi] = built.uniform,
                   !.texturesView[mi] = built.views]
    ELSE [b EXCEPT !.material = [groupIndex |-> 2,
                                 bindGroup |-> [id |-> layout.created + 1,
                                                layout |-> layout.handle,
                                                buffer |-> built.uniform,
                                                textures |-> built.views],
                                 primitive |-> p],
                   !.mc = Append(@, [key |-> MaterialKey(MaterialJson[mi]),
                                     material |-> [groupIndex |-> 2,
                                                   bindGroup |-> [id |-> layout.created + 1,
                                                                  layout |-> layout.handle,
                                                                  buffer |-> built.uniform,
                                                                  textures |-> built.views],
                                                   primitive |-> p]]),
                   !.record.bindGroupCount = @ + 1,
                   !.cached.solidColorTexture = built.cache,
                   !.cached.bindGroupLayout = layout.cache,
                   !.created = layout.created + 1,
                   !.uniform[mi] = built.uniform,
                   !.texturesView[mi] = built.views]

\* The material stage with the layout request made after the material build.
MaterialStage(b, p, mi, built) ==
    BuildMaterial(b, p, mi, built,
                  MaterialBindGroupLayoutGet(b.cached.bindGroupLayout, built.created))

\* The pipeline stage: the RenderPipeline of the key ks is taken from
\* this.renderPipelines, or made with the pipeline the cache returns; a pipeline
\* the cache creates is counted in record.pipelineCount.
BuildPipelineEntry(b, ks, pipe) ==
    IF MapHas(b.rp, ks) THEN b
    ELSE [b EXCEPT !.rp = Append(@, [key |-> ks, pipeline |-> pipe.handle,
                                     materialPrimitivesMap |-> <<>>]),
                   !.cached.pipeline = pipe.cache,
                   !.created = pipe.created,
                   !.record.pipelineCount = IF pipe.created > b.created THEN @ + 1 ELSE @]

\* renderPipeline.materialPrimitivesMap with the list of the material present.
WithMaterial(mpm, material) ==
    IF HasMaterial(mpm, material) THEN mpm
    ELSE Append(mpm, [material |-> material, primitives |-> <<>>])

\* The draw entry stage: the list of the material under the pipeline k is
\* looked up or made, the instance position of the primitive is set, and the
\* draw entry is pushed unless setting the position threw.
BuildDrawEntry(b, p, pjson, k, pos) ==
    [b EXCEPT
       !.rp[k].materialPrimitivesMap =
           IF pos.thrown # "none" THEN WithMaterial(@, b.material)
           ELSE [WithMaterial(@, b.material) EXCEPT
                    ![MaterialIndex(WithMaterial(@, b.material), b.material)].primitives =
                        Append(@, [buffers |-> p,
                                   indices |-> GetField(pjson, "indices"),
                                   vertexCount |-> VertexCountOf(GetField(pjson, "attributes")),
                                   instanceInAll |-> pos.range])],
       !.pi = pos.pi,
       !.writes = @ \o pos.writes,
       !.thrown = pos.thrown]

PipelineStage(b, pjson, mjson, nl) ==
    BuildPipelineEntry(b, PipelineKey(pjson, mjson),
        ResourceGet(b.cached.pipeline,
                    PipelineDescriptor(pjson, mjson, <<0, nl, b.material.bindGroup.layout>>),
                    b.created))

DrawStage(b, p, pjson, mjson, ns) ==
    BuildDrawEntry(b, p, pjson, MapIndex(b.rp, PipelineKey(pjson, mjson)),
                   SetInstancePosForPrimitiveNodes(p, pjson, b.pi, ns))

\* The body of the mesh pass of GLTFScene.build for the primitive p. b holds what
\* the build has made so far; nl is the node bind group layout. A primitive
\* without a material has no build result, and reading it throws.
BuildPrimitive(b, p, meshs, ns, nl) ==
    IF b.thrown # "none" THEN b
    ELSE IF GetField(PrimJson(meshs, p), "material") = "undefined"
    THEN [b EXCEPT !.thrown = "TypeError"]
    ELSE DrawStage(
            PipelineStage(
                MaterialStage(b, p, GetField(PrimJson(meshs, p), "material"),
                    MeshPhysicalMaterialBuild(
                        b.cached.solidColorTexture,
                        MaterialJson[GetField(PrimJson(meshs, p), "material")],
                        b.created)),
                PrimJson(meshs, p),
                MaterialJson[GetField(PrimJson(meshs, p), "material")], nl),
            p, PrimJson(meshs, p),
            MaterialJson[GetField(PrimJson(meshs, p), "material")], ns)

RECURSIVE BuildPrimitives(_, _, _, _, _)
BuildPrimitives(b, ps, meshs, ns, nl) ==
    IF ps = <<>> THEN b
    ELSE BuildPrimitives(BuildPrimitive(b, Head(ps), meshs, ns, nl), Tail(ps), meshs, ns, nl)

\* GLTFScene.build from the traversal to the end of the mesh pass: the instance
\* buffer is sized for the references registered, the instance bind group is
\* made and counted, and the primitives are walked in mesh order.
BuildInstances(meshs, ns, rp, cache, rec, unis, views, nl, refs) ==
    [nodeBindGroupLayout |-> nl.handle,
     instanceBuffer      |-> [id |-> nl.created + 1, size |-> Len(refs)],
     instanceBindGroup   |-> [id |-> nl.created + 2, layout |-> nl.handle,
                              buffer |-> nl.created + 1],
     b |-> BuildPrimitives(
              [rp       |-> rp,
               mc       |-> <<>>,
               material |-> [groupIndex |-> 0,
                             bindGroup |-> [id |-> 0, layout |-> 0, buffer |-> 0,
                                            textures |-> <<>>],
                             primitive |-> <<0, 0>>],
               cached   |-> [cache EXCEPT !.bindGroupLayout = nl.cache],
               created  |-> nl.created + 2,
               record   |-> [rec EXCEPT !.bindGroupCount = @ + 1],
               pi       |-> [total |-> Len(refs), offset |-> 0,
                             matrices |-> RegisterNodes(<<>>, refs),
                             arrayBuffer |-> [i \in 1..Len(refs) |-> ZeroBlock],
                             defined |-> TRUE],
               uniform  |-> unis,
               texturesView |-> views,
               writes   |-> <<>>,
               thrown   |-> "none"],
              Primitives(meshs), meshs, ns, nl.handle)]

BuildScene(meshs, ns, roots, rp, cache, rec, unis, views, n) ==
    BuildInstances(meshs, ns, rp, cache, rec, unis, views,
                   NodeBindGroupLayoutGet(cache.bindGroupLayout, n),
                   References(meshs, ns, Traverse(ns, roots)))

\* An upload that leaves the buffer the view had as it is: not the upload
\* of the code.
UploadBufferNoDestroy(view, n) ==
    [view EXCEPT !.gpuBuffer = n + 1, !.alive = @ \cup {n + 1}]

\* GLTFBufferView.uploadBuffer(device): the buffer the view has is destroyed
\* and a new one is created, filled and unmapped.
UploadBuffer(view, n) ==
    [view EXCEPT !.gpuBuffer = n + 1, !.alive = (@ \ {view.gpuBuffer}) \cup {n + 1}]

\* this.bufferViews.forEach: the views flagged BUFFER are uploaded, in order.
\* n is the number of objects the device has created so far.
RECURSIVE UploadBuffersFrom(_, _, _)
UploadBuffersFrom(views, i, n) ==
    IF i > Len(views) THEN [views |-> views, created |-> n]
    ELSE IF views[i].flag = "BUFFER"
    THEN UploadBuffersFrom([views EXCEPT ![i] = UploadBuffer(views[i], n)], i + 1, n + 1)
    ELSE UploadBuffersFrom(views, i + 1, n)

UploadBuffers(views, n) == UploadBuffersFrom(views, 1, n)

\* GLTFScene.build(options). An exception leaves the scene as the statements
\* before it made it: this.primitiveInstances and this.instanceBuffer are
\* assigned last, after the instance buffer is unmapped.
Build ==
    /\ builds < MaxBuilds
    /\ bufferViews' = UploadBuffers(bufferViews, created).views
    /\ \E r \in {BuildScene(a_meshs, nodes, children, renderPipelines, cached,
                            record, uniform, texturesView,
                            UploadBuffers(bufferViews, created).created)} :
           /\ nodeBindGroupLayout' = r.nodeBindGroupLayout
           /\ instanceBindGroup' = r.instanceBindGroup
           /\ renderPipelines' = r.b.rp
           /\ cached' = r.b.cached
           /\ created' = r.b.created
           /\ record' = r.b.record
           /\ uniform' = r.b.uniform
           /\ texturesView' = r.b.texturesView
           /\ writes' = r.b.writes
           /\ thrown' = r.b.thrown
           /\ gpuBuffers' =
                 Append(IF r.b.thrown = "none" THEN <<>>
                        ELSE SelectSeq(gpuBuffers, LAMBDA g : g.id = instanceBuffer.id),
                        [id |-> r.instanceBuffer.id,
                         mapped |-> r.b.thrown # "none",
                         data |-> r.b.pi.arrayBuffer])
           /\ instanceBuffer' = IF r.b.thrown = "none" THEN r.instanceBuffer
                                ELSE instanceBuffer
           /\ primitiveInstances' =
                 IF r.b.thrown = "none"
                 THEN [r.b.pi EXCEPT !.offset = 0,
                                     !.arrayBuffer = [i \in 1..r.b.pi.total |-> ZeroBlock]]
                 ELSE primitiveInstances
    /\ builds' = builds + 1
    /\ lastOp' = "build"
    /\ uploads' = <<>>
    /\ UNCHANGED <<a_meshs, nodes, children, lastRecord, renderPass>>
    /\ UNCHANGED meshVars
    /\ UNCHANGED <<loaderVars, mipVars, composerVars, layoutVars>>

----------------------------------------------------------------------------
(* GLTFScene.updateBuffers and GLTFScene.render *)

\* One call of setInstancePosForPrimitiveNodes in updateBuffers: its result is
\* not used.
UpdatePrimitive(u, pos) ==
    [pi |-> pos.pi, writes |-> u.writes \o pos.writes, thrown |-> pos.thrown]

RECURSIVE UpdatePrimitives(_, _, _, _)
UpdatePrimitives(u, ps, meshs, ns) ==
    IF ps = <<>> \/ u.thrown # "none" THEN u
    ELSE UpdatePrimitives(
            UpdatePrimitive(u, SetInstancePosForPrimitiveNodes(
                                   Head(ps), PrimJson(meshs, Head(ps)), u.pi, ns)),
            Tail(ps), meshs, ns)

\* A walk that goes on from the offset the last walk ended at: not the walk
\* of updateBuffers.
UpdateInstancesNoReset(pi, meshs, ns) ==
    UpdatePrimitives([pi |-> pi, writes |-> <<>>, thrown |-> "none"],
                     Primitives(meshs), meshs, ns)

\* The walk of updateBuffers over the primitives, from offset 0.
UpdateInstances(pi, meshs, ns) ==
    UpdatePrimitives([pi |-> [pi EXCEPT !.offset = 0], writes |-> <<>>, thrown |-> "none"],
                     Primitives(meshs), meshs, ns)

\* device.queue.writeBuffer(buffer, 0, data)
WriteBuffer(buffers, id, data) ==
    [i \in DOMAIN buffers |->
        IF buffers[i].id = id THEN [buffers[i] EXCEPT !.data = data] ELSE buffers[i]]

\* The last two of the uploads made in succession.
LastTwo(us) == IF Len(us) <= 2 THEN us ELSE SubSeq(us, Len(us) - 1, Len(us))

\* GLTFScene.updateBuffers(). Before the first build that completes,
\* this.primitiveInstances is undefined and the call throws.
UpdateBuffers ==
    /\ IF ~primitiveInstances.defined
       THEN /\ thrown' = "TypeError"
            /\ UNCHANGED <<primitiveInstances, writes, gpuBuffers, uploads>>
       ELSE \E u \in {UpdateInstances(primitiveInstances, a_meshs, nodes)} :
                /\ primitiveInstances' = u.pi
                /\ writes' = u.writes
                /\ thrown' = u.thrown
                /\ gpuBuffers' = IF u.thrown = "none"
                                 THEN WriteBuffer(gpuBuffers, instanceBuffer.id,
                                                  u.pi.arrayBuffer)
                                 ELSE gpuBuffers
                /\ uploads' = IF u.thrown = "none"
                              THEN LastTwo(Append(uploads, u.pi.arrayBuffer))
                              ELSE uploads
    /\ lastOp' = "updateBuffers"
    /\ UNCHANGED <<a_meshs, nodes, children, renderPipelines, nodeBindGroupLayout,
                   instanceBindGroup, instanceBuffer, record, lastRecord, cached,
                   created, uniform, texturesView, renderPass, builds>>
    /\ UNCHANGED meshVars
    /\ UNCHANGED <<loaderVars, mipVars, viewVars, composerVars, layoutVars>>

Command(op, args) == [op |-> op, args |-> args]

\* A draw that never looks at the indices of the entry: not the draw of
\* render.
DrawCommandsNonIndexed(primitive) ==
    <<Command("setVertexBuffer", <<0, primitive.buffers[1], primitive.buffers[2]>>),
      Command("draw", <<primitive.vertexCount, primitive.instanceInAll.count,
                        0, primitive.instanceInAll.first>>)>>

\* The commands render encodes for one draw entry.
DrawCommands(primitive) ==
    <<Command("setVertexBuffer", <<0, primitive.buffers[1], primitive.buffers[2]>>)>>
    \o IF primitive.indices # "undefined"
       THEN <<Command("setIndexBuffer", <<primitive.buffers[1], primitive.buffers[2]>>),
              Command("drawIndexed", <<IndexCountOf(primitive.indices),
                                       primitive.instanceInAll.count,
                                       0, 0, primitive.instanceInAll.first>>)>>
       ELSE <<Command("draw", <<primitive.vertexCount, primitive.instanceInAll.count,
                                0, primitive.instanceInAll.first>>)>>

RECURSIVE PrimitivesCommands(_)
PrimitivesCommands(primitives) ==
    IF primitives = <<>> THEN <<>>
    ELSE DrawCommands(Head(primitives)) \o PrimitivesCommands(Tail(primitives))

RECURSIVE MaterialsCommands(_)
MaterialsCommands(mpm) ==
    IF mpm = <<>> THEN <<>>
    ELSE <<Command("setBindGroup", <<Head(mpm).material.groupIndex,
                                     Head(mpm).material.bindGroup.id>>)>>
         \o PrimitivesCommands(Head(mpm).primitives)
         \o MaterialsCommands(Tail(mpm))

RECURSIVE PipelinesCommands(_)
PipelinesCommands(rp) ==
    IF rp = <<>> THEN <<>>
    ELSE <<Command("setPipeline", <<Head(rp).pipeline>>)>>
         \o MaterialsCommands(Head(rp).materialPrimitivesMap)
         \o PipelinesCommands(Tail(rp))

\* Everything render encodes on the render pass.
RenderCommands(group, rp) ==
    <<Command("setBindGroup", <<1, group.id>>)>> \o PipelinesCommands(rp)

CountOps(commands, ops) == Cardinality({i \in DOMAIN commands : commands[i].op \in ops})

\* A record that goes on counting in the record of the call before: not the
\* record of render.
RenderRecordAccumulated(rec, commands) ==
    [lastRecord EXCEPT !.pipelineCount = rec.pipelineCount,
                       !.bindGroupCount = rec.bindGroupCount,
                       !.pipelineSets = @ + CountOps(commands, {"setPipeline"}),
                       !.bindGroupSets = @ + CountOps(commands, {"setBindGroup"}),
                       !.bufferSets = @ + CountOps(commands, {"setVertexBuffer", "setIndexBuffer"}),
                       !.drawCount = @ + CountOps(commands, {"draw", "drawIndexed"})]

\* The record render returns: a copy of this.record with the sets and draws of
\* the call counted in.
RenderRecord(rec, commands) ==
    [rec EXCEPT !.pipelineSets = @ + CountOps(commands, {"setPipeline"}),
                !.bindGroupSets = @ + CountOps(commands, {"setBindGroup"}),
                !.bufferSets = @ + CountOps(commands, {"setVertexBuffer", "setIndexBuffer"}),
                !.drawCount = @ + CountOps(commands, {"draw", "drawIndexed"})]

\* GLTFScene.render(renderPass, device)
Render ==
    /\ renderPass' = RenderCommands(instanceBindGroup, renderPipelines)
    /\ lastRecord' = RenderRecord(record, renderPass')
    /\ thrown' = "none"
    /\ lastOp' = "render"
    /\ uploads' = <<>>
    /\ UNCHANGED <<a_meshs, nodes, children, renderPipelines, nodeBindGroupLayout,
                   instanceBindGroup, instanceBuffer, primitiveInstances, record, cached,
                   created, gpuBuffers, uniform, texturesView, writes, builds>>
    /\ UNCHANGED meshVars
    /\ UNCHANGED <<loaderVars, mipVars, viewVars, composerVars, layoutVars>>

----------------------------------------------------------------------------
(* The scene graph *)

TransformValues == {1, 2}

\* A GLTFNode of the mesh m (0: a node without a mesh) is added as the last
\* child of parent (0: of the scene).
AddNode(parent, m) ==
    /\ Len(nodes) < MaxNodes
    /\ LET n == Len(nodes) + 1
           node == [a_mesh |-> m, children |-> <<>>, transform |-> 1]
       IN  IF parent = 0
           THEN /\ nodes' = Append(nodes, node)
                /\ children' = Append(children, n)
           ELSE /\ nodes' = Append([nodes EXCEPT ![parent].children = Append(@, n)], node)
                /\ children' = children
    /\ thrown' = "none"
    /\ lastOp' = "addNode"
    /\ uploads' = <<>>
    /\ UNCHANGED <<a_meshs, renderPipelines, nodeBindGroupLayout, instanceBindGroup,
                   instanceBuffer, primitiveInstances, record, lastRecord, cached,
                   created, gpuBuffers, uniform, texturesView, renderPass, writes,
                   builds>>
    /\ UNCHANGED meshVars
    /\ UNCHANGED <<loaderVars, mipVars, viewVars, composerVars, layoutVars>>

\* The world transform of the node n changes to t.
SetTransform(n, t) ==
    /\ nodes[n].transform # t
    /\ nodes' = [nodes EXCEPT ![n].transform = t]
    /\ thrown' = "none"
    /\ lastOp' = "setTransform"
    /\ uploads' = <<>>
    /\ UNCHANGED <<a_meshs, children, renderPipelines, nodeBindGroupLayout,
                   instanceBindGroup, instanceBuffer, primitiveInstances, record,
                   lastRecord, cached, created, gpuBuffers, uniform, texturesView,
                   renderPass, writes, builds>>
    /\ UNCHANGED meshVars
    /\ UNCHANGED <<loaderVars, mipVars, viewVars, composerVars, layoutVars>>

----------------------------------------------------------------------------
(* Mesh *)

MeshObjects == {1, 2}

\* A Mesh as its constructor leaves it: nothing built. wireframe, blending and
\* blendingPreset are the watched properties of its material; payload is the
\* payload of the last onChange call and stages the methods that call invoked,
\* each with whether it was given build options.
NewMesh(mi, w) ==
    [material |-> mi, wireframe |-> w, blending |-> "undefined",
     blendingPreset |-> "undefined", builds |-> 0, buildOptions |-> FALSE,
     changes |-> 0, payload |-> <<>>, stages |-> <<>>,
     materialBuildResult |-> [vertexBindingStart |-> 0, uniform |-> 0, views |-> <<>>,
                              bindGroupLayoutEntries |-> <<>>],
     geometryBuildResult |-> [code |-> "", bindGroupLayoutEntries |-> <<>>,
                              resources |-> <<>>, vertexBuffer |-> 0,
                              bufferLayout |-> "undefined"],
     componentBuildResult |-> [transformUniform |-> 0],
     vertexResources |-> [bindGroupLayouts |-> <<>>, bindGroup |-> 0],
     fragmentResources |-> [bindGroupLayouts |-> <<>>, bindGroup |-> 0],
     renderPipeline |-> 0]

\* A storage buffer entry of the vertex stage.
VertexStorageEntry(binding) ==
    << <<"binding", ToString(binding)>>, <<"visibility", "VERTEX">>,
       <<"buffer.type", "read-only-storage">> >>

\* [positions, indices, normals, uvs] of the geometry of the meshes: it has no
\* indices.
GeometryAttributes == <<"positions", "undefined", "normals", "uvs">>

DefinedAttributes ==
    SelectSeq(<<1, 2, 3, 4>>, LAMBDA i : GeometryAttributes[i] # "undefined")

\* Mesh.buildMaterial: the material is built and no vertex part comes back, so
\* vertexBindingStart is 0.
WithMaterialBuildResult(r, built) ==
    [r EXCEPT !.cached.solidColorTexture = built.cache,
              !.created = built.created,
              !.mesh.materialBuildResult =
                  [vertexBindingStart |-> 0, uniform |-> built.uniform,
                   views |-> built.views,
                   bindGroupLayoutEntries |-> MaterialLayoutEntries(0)]]

MeshBuildMaterial(r) ==
    WithMaterialBuildResult(r,
        MeshPhysicalMaterialBuild(r.cached.solidColorTexture,
                                  MaterialJson[r.mesh.material], r.created))

\* Mesh.buildWireframe: a storage buffer and a layout entry for every attribute
\* the geometry has, after the entry of the transform.
MeshBuildWireframe(r) ==
    [r EXCEPT !.created = @ + Len(DefinedAttributes),
              !.mesh.geometryBuildResult =
                  [code |-> "wireframe.wgsl",
                   bindGroupLayoutEntries |->
                       <<VertexStorageEntry(r.mesh.materialBuildResult.vertexBindingStart)>>
                       \o [k \in 1..Len(DefinedAttributes) |->
                              VertexStorageEntry(r.mesh.materialBuildResult.vertexBindingStart
                                                 + (DefinedAttributes[k] - 1) + 1)],
                   resources |-> [k \in 1..Len(DefinedAttributes) |-> r.created + k],
                   vertexBuffer |-> 0,
                   bufferLayout |-> "undefined"]]

\* Mesh.buildGeometry
MeshBuildGeometry(r) ==
    IF r.mesh.wireframe THEN MeshBuildWireframe(r)
    ELSE [r EXCEPT !.created = @ + 1,
                   !.mesh.geometryBuildResult =
                       [code |-> "normal.wgsl",
                        bindGroupLayoutEntries |->
                            <<VertexStorageEntry(r.mesh.materialBuildResult.vertexBindingStart)>>,
                        resources |-> <<>>,
                        vertexBuffer |-> r.created + 1,
                        bufferLayout |-> "stride32:loc0,loc1,loc2"]]

\* Mesh.buildComponent
MeshBuildComponent(r) ==
    [r EXCEPT !.created = @ + 1,
              !.mesh.componentBuildResult = [transformUniform |-> r.created + 1]]

\* Mesh.buildVertexResources: the layout of the entries of the geometry comes
\* from the cache, the bind group is new.
WithVertexResources(r, layout) ==
    [r EXCEPT !.cached.bindGroupLayout = layout.cache,
              !.created = layout.created + 1,
              !.mesh.vertexResources =
                  [bindGroupLayouts |-> <<0, layout.handle>>,
                   bindGroup |-> layout.created + 1]]

MeshBuildVertexResources(r) ==
    WithVertexResources(r,
        ResourceGet(r.cached.bindGroupLayout,
                    CanonicalizeList(r.mesh.geometryBuildResult.bindGroupLayoutEntries),
                    r.created))

\* Mesh.buildFragmentResources
WithFragmentResources(r, layout) ==
    [r EXCEPT !.cached.bindGroupLayout = layout.cache,
              !.created = layout.created + 1,
              !.mesh.fragmentResources =
                  [bindGroupLayouts |-> <<layout.handle>>,
                   bindGroup |-> layout.created + 1]]

MeshBuildFragmentResources(r) ==
    WithFragmentResources(r,
        ResourceGet(r.cached.bindGroupLayout,
                    CanonicalizeList(r.mesh.materialBuildResult.bindGroupLayoutEntries),
                    r.created))

\* The key of the pipeline cache for a Mesh.
MeshPipelineDescriptor(mesh) ==
    [vertex     |-> Canonicalize(<< <<"code", mesh.geometryBuildResult.code>>,
                                    <<"context.useNormal", "true">>,
                                    <<"context.useTexcoord", "true">>,
                                    <<"context.bindingStart",
                                      ToString(mesh.materialBuildResult.vertexBindingStart)>> >>),
     fragment   |-> Canonicalize(<<<<"code", "pbr-light.wgsl">>>>
                                 \o FragmentContext(MaterialJson[mesh.material])),
     descriptor |-> Canonicalize(<< <<"primitive.topology",
                                      IF mesh.wireframe THEN "line-list" ELSE "triangle-list">>,
                                    <<"bufferLayout", mesh.geometryBuildResult.bufferLayout>>,
                                    <<"blending",
                                      IF mesh.blendingPreset # "undefined"
                                      THEN mesh.blendingPreset ELSE mesh.blending>> >>),
     layouts    |-> mesh.vertexResources.bindGroupLayouts
                    \o mesh.fragmentResources.bindGroupLayouts]

\* Mesh.buildPipeline
WithRenderPipeline(r, pipe) ==
    [r EXCEPT !.cached.pipeline = pipe.cache,
              !.created = pipe.created,
              !.mesh.renderPipeline = pipe.handle]

MeshBuildPipeline(r) ==
    WithRenderPipeline(r,
        ResourceGet(r.cached.pipeline, MeshPipelineDescriptor(r.mesh), r.created))

\* Mesh.build(options): the stages in the order of the code.
MeshBuildStages(r) ==
    MeshBuildPipeline(
        MeshBuildFragmentResources(
            MeshBuildVertexResources(
                MeshBuildComponent(
                    MeshBuildGeometry(
                        MeshBuildMaterial(r))))))

MeshBuild(m) ==
    /\ meshes[m].builds < MaxMeshBuilds
    /\ \E r \in {MeshBuildStages([cached |-> cached, created |-> created,
                                  mesh |-> [meshes[m] EXCEPT !.buildOptions = TRUE,
                                                             !.builds = @ + 1]])} :
           /\ meshes' = [meshes EXCEPT ![m] = r.mesh]
           /\ cached' = r.cached
           /\ created' = r.created
    /\ thrown' = "none"
    /\ lastOp' = "meshBuild"
    /\ uploads' = <<>>
    /\ UNCHANGED <<a_meshs, nodes, children, renderPipelines, nodeBindGroupLayout,
                   instanceBindGroup, instanceBuffer, primitiveInstances, record,
                   lastRecord, gpuBuffers, uniform, texturesView, renderPass, writes,
                   builds>>
    /\ UNCHANGED <<loaderVars, mipVars, viewVars, composerVars, layoutVars>>

\* Mesh.watch: the build stages of every watched property of the material.
MeshWatch ==
    [wireframe      |-> <<"buildGeometry", "buildPipeline">>,
     blending       |-> <<"buildPipeline">>,
     blendingPreset |-> <<"buildPipeline">>]

\* Payloads of onChange calls that name the other two stages.
OtherPayloads == {<<"buildMaterial", "buildPipeline">>, <<"buildComponent">>}

\* The method p is called on the Mesh with this.buildOptions.
Invoked(r, p) ==
    [r EXCEPT !.mesh.stages = Append(@, [stage |-> p, options |-> r.mesh.buildOptions])]

\* Reflect.apply(this[p], this, this.getArgumentsList(p))
ApplyStage(r, p) ==
    IF p = "buildGeometry" THEN MeshBuildGeometry(Invoked(r, p))
    ELSE IF p = "buildComponent" THEN MeshBuildComponent(Invoked(r, p))
    ELSE IF p = "buildMaterial" THEN MeshBuildMaterial(Invoked(r, p))
    ELSE MeshBuildPipeline(Invoked(r, p))

\* The side effect of a stage in onChange.
SideEffect(r, p) ==
    IF p \in {"buildComponent", "buildGeometry"}
    THEN MeshBuildVertexResources(Invoked(r, "buildVertexResources"))
    ELSE IF p = "buildMaterial"
    THEN MeshBuildFragmentResources(Invoked(r, "buildFragmentResources"))
    ELSE r

\* One round of the forEach of onChange. Before the first build
\* this.buildOptions is undefined: getArgumentsList throws on reading its
\* device for a geometry or component stage, and a pipeline or material stage
\* is called with undefined and throws on what it reads first.
OnChangeStage(r, p) ==
    IF r.thrown # "none" THEN r
    ELSE IF ~r.mesh.buildOptions
    THEN IF p \in {"buildComponent", "buildGeometry"}
         THEN [r EXCEPT !.thrown = "TypeError"]
         ELSE [Invoked(r, p) EXCEPT !.thrown = "TypeError"]
    ELSE SideEffect(ApplyStage(r, p), p)

\* A forEach that runs the stages from the last to the first: not the
\* forEach of onChange.
RECURSIVE OnChangeReversed(_, _)
OnChangeReversed(r, payload) ==
    IF payload = <<>> THEN r
    ELSE OnChangeStage(OnChangeReversed(r, Tail(payload)), Head(payload))

\* Mesh.onChange({ payload }): the stages of the payload in their order.
RECURSIVE OnChange(_, _)
OnChange(r, payload) ==
    IF payload = <<>> THEN r
    ELSE OnChange(OnChangeStage(r, Head(payload)), Tail(payload))

\* The watched property is set on the material of the Mesh.
WithProperty(mesh, property) ==
    IF property = "wireframe" THEN [mesh EXCEPT !.wireframe = ~@]
    ELSE IF property = "blending"
    THEN [mesh EXCEPT !.blending = IF @ = "undefined" THEN "custom" ELSE "undefined"]
    ELSE IF property = "blendingPreset"
    THEN [mesh EXCEPT !.blendingPreset = IF @ = "undefined" THEN "additive" ELSE "undefined"]
    ELSE mesh

\* An onChange call on the Mesh m with the payload, after the property, if
\* any, has its new value.
MeshOnChange(m, property, payload) ==
    /\ meshes[m].changes < MaxChanges
    /\ \E r \in {OnChange([cached |-> cached, created |-> created, thrown |-> "none",
                            mesh |-> [WithProperty(meshes[m], property) EXCEPT
                                         !.changes = @ + 1,
                                         !.payload = payload,
                                         !.stages = <<>>]],
                           payload)} :
           /\ meshes' = [meshes EXCEPT ![m] = r.mesh]
           /\ cached' = r.cached
           /\ created' = r.created
           /\ thrown' = r.thrown
    /\ lastOp' = "onChange"
    /\ uploads' = <<>>
    /\ UNCHANGED <<a_meshs, nodes, children, renderPipelines, nodeBindGroupLayout,
                   instanceBindGroup, instanceBuffer, primitiveInstances, record,
                   lastRecord, gpuBuffers, uniform, texturesView, renderPass, writes,
                   builds>>
    /\ UNCHANGED <<loaderVars, mipVars, viewVars, composerVars, layoutVars>>

\* A watched property of the material of the Mesh m changes: the observer
\* calls onChange with the stages Mesh.watch lists for the property.
MeshChange(m, property) == MeshOnChange(m, property, MeshWatch[property])

\* onChange is called on the Mesh m with another payload.
MeshNotify(m, payload) == MeshOnChange(m, "none", payload)

----------------------------------------------------------------------------
(* GLTFLoaderV2.load *)

MAGIC_NUMBER == 1179937895
VERSION == 2
JSON_CHUNK_TYPE == 1313821514
BINARY_CHUNK_TYPE == 5130562

\* The values of GLTFRenderMode: POINTS (0) to TRIANGLE_FAN (6).
GLTFRenderMode == {"0", "1", "2", "3", "4", "5", "6"}

\* The shader location of every attribute name that has one.
ShaderLocation == ("POSITION" :> 0) @@ ("NORMAL" :> 1) @@ ("TEXCOORD_0" :> 2)

\* A node of json.nodes: its mesh (0: none), its children and its transform.
JsonNode(m, cs, t) == [mesh |-> m, children |-> cs, transform |-> t]

\* The JSON chunk of a container: json.meshes, json.nodes and the root nodes of
\* the default scene, with one buffer view and four accessors.
Json(ms, ns, roots) ==
    [bufferViews |-> 2, accessors |-> 4, images |-> <<2>>,
     meshes |-> ms, nodes |-> ns, scene |-> roots]

\* The GLTFBufferView objects of the JSON: new GLTFBufferView for every buffer
\* view, then new GLTFImage, which flags the view of every image TEXTURE.
BufferViewsOf(json) ==
    [v \in 1..json.bufferViews |->
        [flag |-> IF \E i \in DOMAIN json.images : json.images[i] = v
                  THEN "TEXTURE" ELSE "BUFFER",
         gpuBuffer |-> 0,
         alive |-> {}]]

\* A container with a well-formed header and both chunks.
GoodContainer(json) ==
    [magic |-> MAGIC_NUMBER, version |-> VERSION, jsonChunkType |-> JSON_CHUNK_TYPE,
     jsonText |-> "json", binaryChunkType |-> BINARY_CHUNK_TYPE, json |-> json]

NothingParsed ==
    [GLTFBufferView |-> 0, GLTFAccessor |-> 0, GLTFMaterial |-> 0, GLTFPrimitive |-> 0,
     GLTFMesh |-> 0, GLTFNode |-> 0, GLTFScene |-> 0]

\* Header checks that look at the version before the magic number: not the
\* checks of load.
HeaderErrorVersionFirst(c) ==
    IF c.version # VERSION THEN "Provided file is not gltf version 2"
    ELSE IF c.magic # MAGIC_NUMBER THEN "Provided file is not a gltf file"
    ELSE IF c.jsonChunkType # JSON_CHUNK_TYPE
    THEN "Invalid glB: The first chunk of the glB file is not a JSON chunk!"
    ELSE IF c.jsonText # "json" THEN "SyntaxError"
    ELSE IF c.binaryChunkType # BINARY_CHUNK_TYPE
    THEN "Invalid glB: The second chunk of the glB file is not a binary chunk!"
    ELSE ""

\* The statements of load up to the binary chunk header: the error of the first
\* check that fails, "" when there is none. The JSON chunk is parsed between the
\* check of its type and the check of the binary chunk.
HeaderError(c) ==
    IF c.magic # MAGIC_NUMBER THEN "Provided file is not a gltf file"
    ELSE IF c.version # VERSION THEN "Provided file is not gltf version 2"
    ELSE IF c.jsonChunkType # JSON_CHUNK_TYPE
    THEN "Invalid glB: The first chunk of the glB file is not a JSON chunk!"
    ELSE IF c.jsonText # "json" THEN "SyntaxError"
    ELSE IF c.binaryChunkType # BINARY_CHUNK_TYPE
    THEN "Invalid glB: The second chunk of the glB file is not a binary chunk!"
    ELSE ""

\* topology in GLTFRenderMode, with TRIANGLES for a primitive without a mode.
SupportedMode(pjson) ==
    GetField(pjson, "mode") = "undefined" \/ GetField(pjson, "mode") \in GLTFRenderMode

\* The attribute accessors of a primitive: those of the attributes that have a
\* shader location; the others are filtered out.
AttributeAccessors(pjson) ==
    {name \in AttributeNames(GetField(pjson, "attributes")) : name \in DOMAIN ShaderLocation}

\* mesh.primitives.map: a primitive with an unsupported mode throws, the others
\* become GLTFPrimitive objects.
RECURSIVE ParsePrimitives(_, _)
ParsePrimitives(ps, r) ==
    IF ps = <<>> \/ r.error # "" THEN r
    ELSE IF ~SupportedMode(Head(ps))
    THEN [r EXCEPT !.error = "Unsupported primitive mode"]
    ELSE ParsePrimitives(Tail(ps), [r EXCEPT !.primitives = Append(@, Head(ps)),
                                             !.parsed.GLTFPrimitive = @ + 1])

\* new GLTFMesh(primitives, mesh)
ParseMesh(r) ==
    IF r.error # "" THEN r
    ELSE [r EXCEPT !.meshes = Append(@, r.primitives), !.parsed.GLTFMesh = @ + 1]

\* json.meshes.map
RECURSIVE ParseMeshes(_, _)
ParseMeshes(ms, r) ==
    IF ms = <<>> \/ r.error # "" THEN r
    ELSE ParseMeshes(Tail(ms),
                     ParseMesh(ParsePrimitives(Head(ms), [r EXCEPT !.primitives = <<>>])))

\* The buffer views, accessors and materials of the JSON, then its meshes.
ParseJson(json) ==
    ParseMeshes(json.meshes,
                [meshes |-> <<>>, primitives |-> <<>>, error |-> "",
                 bufferViews |-> BufferViewsOf(json),
                 parsed |-> [NothingParsed EXCEPT
                                !.GLTFBufferView = json.bufferViews,
                                !.GLTFAccessor = json.accessors,
                                !.GLTFMaterial = Cardinality(DOMAIN MaterialJson)]])

\* gltfNode.addChildren(child)
AddChild(r, parent) == [r.nodes EXCEPT ![parent].children = Append(@, r.id)]

\* createGLTFNode(node, meshes, nodes): the GLTFNode of the JSON node j is made,
\* then the nodes of its children, each added to it. ns are the nodes made so
\* far; a node is known by the place at which it was made.
RECURSIVE CreateGLTFNode(_, _, _), AddChildren(_, _, _, _)
CreateGLTFNode(jnodes, j, ns) ==
    [nodes |-> AddChildren(jnodes, jnodes[j].children,
                           Append(ns, [a_mesh |-> jnodes[j].mesh, children |-> <<>>,
                                       transform |-> jnodes[j].transform]),
                           Len(ns) + 1),
     id |-> Len(ns) + 1]

AddChildren(jnodes, cs, ns, parent) ==
    IF cs = <<>> THEN ns
    ELSE AddChildren(jnodes, Tail(cs),
                     AddChild(CreateGLTFNode(jnodes, Head(cs), ns), parent), parent)

WithRoot(c, roots) == [nodes |-> c.nodes, children |-> Append(roots, c.id)]

\* defaultScene.nodes.map: the root nodes of the scene, with their subtrees.
RECURSIVE CreateNodes(_, _, _)
CreateNodes(jnodes, roots, g) ==
    IF roots = <<>> THEN g
    ELSE CreateNodes(jnodes, Tail(roots),
                     WithRoot(CreateGLTFNode(jnodes, Head(roots), g.nodes), g.children))

NoScene(error, counts) ==
    [error |-> error, parsed |-> counts, a_meshs |-> <<>>, nodes |-> <<>>, children |-> <<>>,
     bufferViews |-> <<>>]

\* new GLTFScene(nodes, meshes, defaultScene, bufferViews)
WithScene(m, g) ==
    [error |-> "", parsed |-> [m.parsed EXCEPT !.GLTFNode = Len(g.nodes), !.GLTFScene = 1],
     a_meshs |-> m.meshes, nodes |-> g.nodes, children |-> g.children,
     bufferViews |-> m.bufferViews]

LoadScene(json, m) ==
    IF m.error # "" THEN NoScene(m.error, m.parsed)
    ELSE WithScene(m, CreateNodes(json.nodes, json.scene, [nodes |-> <<>>, children |-> <<>>]))

\* What load makes of the container c: the scene it returns, or the error it
\* fails with, and the objects it has created.
LoadContainer(c) ==
    IF HeaderError(c) # "" THEN NoScene(HeaderError(c), NothingParsed)
    ELSE LoadScene(c.json, ParseJson(c.json))

\* GLTFLoaderV2.load(filename)
Load ==
    /\ loadState = "pending"
    /\ \E r \in {LoadContainer(container)} :
           /\ loadState' = IF r.error = "" THEN "returned" ELSE "failed"
           /\ loadError' = r.error
           /\ parsed' = r.parsed
           /\ a_meshs' = r.a_meshs
           /\ nodes' = r.nodes
           /\ children' = r.children
           /\ bufferViews' = r.bufferViews
           /\ thrown' = IF r.error = "" THEN "none"
                        ELSE IF r.error = "SyntaxError" THEN "SyntaxError" ELSE "Error"
    /\ lastOp' = "load"
    /\ UNCHANGED <<renderPipelines, nodeBindGroupLayout, instanceBindGroup, instanceBuffer,
                   primitiveInstances, record, lastRecord, cached, created, gpuBuffers,
                   uniform, texturesView, renderPass, writes, uploads, builds, container>>
    /\ UNCHANGED <<meshVars, mipVars, composerVars, layoutVars>>

----------------------------------------------------------------------------
(* MipMap *)

\* The MipMap constructor: without a compute pass of the caller it makes a
\* command encoder and begins a pass that it has to end itself. ends and
\* submitted count the end and submit calls, late the commands encoded on the
\* pass after it was ended.
NewMipMap(needEndPass) ==
    [needEndPass |-> needEndPass,
     created     |-> IF needEndPass THEN <<"commandEncoder", "computePass">> ELSE <<>>,
     commands    |-> <<>>,
     ended       |-> FALSE,
     ends        |-> 0,
     submitted   |-> 0,
     late        |-> 0,
     calls       |-> 0,
     lastCall    |-> "none",
     error       |-> ""]

\* MipMap.tryEnd
TryEnd(m) ==
    IF m.needEndPass
    THEN [m EXCEPT !.ended = TRUE, !.ends = @ + 1, !.submitted = @ + 1]
    ELSE m

\* The calls cmds are made on this.computePass.
Encode(m, cmds) ==
    [m EXCEPT !.commands = @ \o cmds,
              !.late = IF m.ended THEN @ + Len(cmds) ELSE @]

\* MipMap.generateMipmaps(texture, config): when the downsampler has prepared
\* a pass for the texture, the pass is encoded on the compute pass and tryEnd
\* is called; else nothing is done and false is returned.
GenerateMipmapsOf(m, prepared) ==
    IF ~prepared THEN [m EXCEPT !.error = ""]
    ELSE TryEnd([Encode(m, <<Command("encode", <<"spd">>)>>) EXCEPT !.error = ""])

\* An extraction that compares nothing: not the extraction of the code.
ExtractMipmapUnchecked(m, tex, tgt) ==
    TryEnd([Encode(m, <<Command("setPipeline", <<tex.format>>),
                        Command("setBindGroup", <<0>>),
                        Command("dispatchWorkgroups", <<Len(tgt.mipLevels)>>)>>) EXCEPT
              !.created = @ \o <<"computePipeline", "textureView", "textureView", "bindGroup">>,
              !.error = IF tex.format # tgt.texture.format
                        THEN "extractMipmap target format must same with src texture format"
                        ELSE IF tex.width # tgt.texture.width \/ tex.height # tgt.texture.height
                        THEN "extractMipmap target size must same with src texture size"
                        ELSE ""])

\* MipMap.extractMipmap(texture, target): the format and the size of the target
\* are compared with those of the source, then the pipeline and the bind group
\* are made and the work is encoded on the compute pass, one layer of
\* workgroups for every mip level.
ExtractMipmapOf(m, tex, tgt) ==
    IF tex.format # tgt.texture.format
    THEN [m EXCEPT !.error = "extractMipmap target format must same with src texture format"]
    ELSE IF tex.width # tgt.texture.width \/ tex.height # tgt.texture.height
    THEN [m EXCEPT !.error = "extractMipmap target size must same with src texture size"]
    ELSE TryEnd([Encode(m, <<Command("setPipeline", <<tex.format>>),
                             Command("setBindGroup", <<0>>),
                             Command("dispatchWorkgroups", <<Len(tgt.mipLevels)>>)>>) EXCEPT
                   !.created = @ \o <<"computePipeline", "textureView", "textureView",
                                      "bindGroup">>,
                   !.error = ""])

ExtractMipmap ==
    /\ mipmap.calls < MaxExtracts
    /\ mipmap' = [ExtractMipmapOf(mipmap, texture, target) EXCEPT
                      !.calls = @ + 1, !.lastCall = "extractMipmap"]
    /\ UNCHANGED <<texture, target>>
    /\ UNCHANGED <<sceneVars, meshVars, loaderVars, viewVars, composerVars, layoutVars>>

\* A generateMipmaps call on the source texture; the downsampler prepares a
\* pass for it or does not.
GenerateMipmaps(prepared) ==
    /\ mipmap.calls < MaxExtracts
    /\ mipmap' = [GenerateMipmapsOf(mipmap, prepared) EXCEPT
                      !.calls = @ + 1, !.lastCall = "generateMipmaps"]
    /\ UNCHANGED <<texture, target>>
    /\ UNCHANGED <<sceneVars, meshVars, loaderVars, viewVars, composerVars, layoutVars>>

\* No MipMap call is made: a MipMap and textures that stay as they are.
NoMipMap ==
    /\ texture = [format |-> "rgba8unorm", width |-> 4, height |-> 4]
    /\ target = [texture |-> [format |-> "rgba8unorm", width |-> 4, height |-> 4],
                 mipLevels |-> <<0>>]
    /\ mipmap = NewMipMap(TRUE)

----------------------------------------------------------------------------
(* EffectComposer *)

\* The EffectComposer as its constructor leaves it. encoders counts the command
\* encoders created, submits lists the encoders submitted, log is what the last
\* render call did.
NewComposer ==
    [passes |-> <<>>, canvasAppended |-> FALSE, frames |-> 0, encoders |-> 0,
     submits |-> <<>>, log |-> <<>>]

\* ctx.getCurrentTexture() during the frame f, the output texture of the pass
\* at index i, and no texture.
CanvasTexture(f) == <<"canvas", f>>

PassTexture(i) == <<"pass", i>>

NoTexture == <<"undefined", 0>>

\* An input that is the canvas texture for every pass: not the input of
\* render.
PassInputCanvas(i, canvas) == canvas

\* txt of the pass at the place i of this.passes (from 1).
PassInput(i, canvas) == IF i > 1 THEN PassTexture(i - 1) ELSE canvas

\* The pass.render call for the pass at the place i of k passes.
PassRender(i, k, e, canvas) ==
    Command("pass.render", <<i, e, PassInput(i, canvas), i = k,
                             IF i = k THEN canvas ELSE NoTexture>>)

\* The canvas is appended on the first render call.
WithCanvas(c) ==
    IF c.canvasAppended THEN [c EXCEPT !.log = <<>>]
    ELSE [c EXCEPT !.canvasAppended = TRUE, !.log = <<Command("appendCanvas", <<>>)>>]

\* The rest of render: without passes the scene renders itself, else the scene
\* and the passes are encoded on a new encoder that is then submitted.
RenderPasses(c, canvas) ==
    IF Len(c.passes) = 0
    THEN [c EXCEPT !.log = Append(@, Command("scene.render", <<>>))]
    ELSE [c EXCEPT !.encoders = @ + 1,
                   !.log = @ \o <<Command("createCommandEncoder", <<c.encoders + 1>>),
                                  Command("renderScene", <<c.encoders + 1>>)>>
                             \o [i \in 1..Len(c.passes) |->
                                    PassRender(i, Len(c.passes), c.encoders + 1, canvas)]
                             \o <<Command("submit", <<c.encoders + 1>>)>>,
                   !.submits = Append(@, c.encoders + 1)]

\* EffectComposer.render()
ComposerRender ==
    /\ composer.frames < MaxFrames
    /\ composer' = [RenderPasses(WithCanvas(composer), CanvasTexture(composer.frames + 1))
                       EXCEPT !.frames = @ + 1]
    /\ UNCHANGED <<sceneVars, meshVars, loaderVars, mipVars, viewVars, layoutVars>>

\* EffectComposer.addPass(pass)
AddPass(pass) ==
    /\ Len(composer.passes) < MaxPasses
    /\ composer' = [composer EXCEPT !.passes = Append(@, pass)]
    /\ UNCHANGED <<sceneVars, meshVars, loaderVars, mipVars, viewVars, layoutVars>>

NoComposer == composer = NewComposer

----------------------------------------------------------------------------
(* GLTFPrimitive.setPrimitive *)

GLTFTypeNumber == ("VEC2" :> 2) @@ ("VEC3" :> 3)

\* GLTFComponentTypeSize: the accessors here have float components.
ComponentSize == [FLOAT |-> 4]

\* GLTFAccessor.byteStride
ByteStride(accessor) ==
    IF GLTFTypeNumber[accessor.type] * ComponentSize.FLOAT >= accessor.view.byteStride
    THEN GLTFTypeNumber[accessor.type] * ComponentSize.FLOAT
    ELSE accessor.view.byteStride

\* GLTFAccessor.vertexType
VertexType(accessor) ==
    IF accessor.type = "VEC2" THEN "float32x2" ELSE "float32x3"

\* Array.prototype.sort with the comparator a.key - b.key, which is stable: x
\* goes behind every element whose key is not greater.
RECURSIVE InsertByKey(_, _)
InsertByKey(sorted, x) ==
    IF sorted = <<>> THEN <<x>>
    ELSE IF Head(sorted).key > x.key THEN <<x>> \o sorted
    ELSE <<Head(sorted)>> \o InsertByKey(Tail(sorted), x)

RECURSIVE SortByKeyFrom(_, _)
SortByKeyFrom(keyed, sorted) ==
    IF keyed = <<>> THEN sorted
    ELSE SortByKeyFrom(Tail(keyed), InsertByKey(sorted, Head(keyed)))

SortByKey(keyed) == [i \in DOMAIN keyed |-> SortByKeyFrom(keyed, <<>>)[i].value]

\* this.attributeAccessors.sort((a, b) => a.accessor.byteOffset - b.accessor.byteOffset)
SortByOffset(attributeAccessors) ==
    SortByKey([i \in DOMAIN attributeAccessors |->
                  [key |-> attributeAccessors[i].accessor.byteOffset,
                   value |-> attributeAccessors[i]]])

\* bufferLayout.get(accessor.bufferView): the place of the entry in the Map, 0
\* for none. An entry set under a name has view -1.
LayoutGet(map, bufferView) ==
    IF \E i \in DOMAIN map : map[i].view = bufferView
    THEN CHOOSE i \in DOMAIN map : map[i].view = bufferView
    ELSE 0

Distance(a, b) == IF a >= b THEN a - b ELSE b - a

IsSeparate(map, a) ==
    /\ LayoutGet(map, a.accessor.bufferView) # 0
    /\ Distance(a.accessor.byteOffset,
                map[LayoutGet(map, a.accessor.bufferView)].attributes[1].offset)
          >= map[LayoutGet(map, a.accessor.bufferView)].arrayStride

VertexAttribute(a) ==
    [shaderLocation |-> a.shaderLocation, format |-> VertexType(a.accessor),
     offset |-> a.accessor.byteOffset]

\* One turn of the forEach of setPrimitive. An entry of the Map holds the
\* layout (arrayStride, attributes) and its entry of gpuBuffers (accessor,
\* offset).
LayoutStep(map, a) ==
    IF LayoutGet(map, a.accessor.bufferView) = 0 \/ IsSeparate(map, a)
    THEN Append(map, [view |-> IF IsSeparate(map, a) THEN -1 ELSE a.accessor.bufferView,
                      name |-> IF IsSeparate(map, a) THEN a.name ELSE "",
                      arrayStride |-> ByteStride(a.accessor),
                      attributes |-> <<VertexAttribute(a)>>,
                      accessor |-> a.accessor,
                      offset |-> a.accessor.byteOffset])
    ELSE [map EXCEPT ![LayoutGet(map, a.accessor.bufferView)] =
             [@ EXCEPT !.offset = IF a.accessor.byteOffset < @ THEN a.accessor.byteOffset ELSE @,
                       !.attributes = Append(@, VertexAttribute(a))]]

RECURSIVE LayoutLoop(_, _)
LayoutLoop(map, attributeAccessors) ==
    IF attributeAccessors = <<>> THEN map
    ELSE LayoutLoop(LayoutStep(map, Head(attributeAccessors)), Tail(attributeAccessors))

\* The offsets of the attributes become relative to the offset of the buffer
\* and the attributes are sorted by shader location.
Relative(entry) ==
    [entry EXCEPT !.attributes =
        SortByKey([i \in DOMAIN entry.attributes |->
                      [key |-> entry.attributes[i].shaderLocation,
                       value |-> [entry.attributes[i] EXCEPT !.offset = @ - entry.offset]]])]

\* The layouts sorted by the shader location of their first attribute.
SortedLayouts(map) ==
    SortByKey([i \in DOMAIN map |->
                  [key |-> Relative(map[i]).attributes[1].shaderLocation,
                   value |-> Relative(map[i])]])

\* GLTFPrimitive.setPrimitive()
SetPrimitive(attributeAccessors) ==
    LET sorted == SortedLayouts(LayoutLoop(<<>>, SortByOffset(attributeAccessors)))
    IN [built |-> TRUE,
        bufferLayout |-> [i \in DOMAIN sorted |->
                             [arrayStride |-> sorted[i].arrayStride,
                              attributes |-> sorted[i].attributes]],
        gpuBuffers |-> [i \in DOMAIN sorted |->
                           [accessor |-> sorted[i].accessor, offset |-> sorted[i].offset]]]

NotConstructed == [built |-> FALSE, bufferLayout |-> <<>>, gpuBuffers |-> <<>>]

\* new GLTFPrimitive(...) for the attribute list at the place i.
ConstructPrimitive(i) ==
    /\ ~primitiveObjects[i].built
    /\ primitiveObjects' = [primitiveObjects EXCEPT ![i] = SetPrimitive(attributeLists[i])]
    /\ UNCHANGED attributeLists
    /\ UNCHANGED <<sceneVars, meshVars, loaderVars, mipVars, viewVars, composerVars>>

\* No GLTFPrimitive is constructed on its own.
NoPrimitiveObjects ==
    /\ attributeLists = <<>>
    /\ primitiveObjects = <<>>

----------------------------------------------------------------------------
(* Specifications *)

NoRecord == [pipelineCount |-> 0, pipelineSets |-> 0, bindGroupCount |-> 0,
             bindGroupSets |-> 0, bufferSets |-> 0, drawCount |-> 0]

\* What the GLTFScene constructor and the device start with.
NothingBuilt ==
    /\ renderPipelines = <<>>
    /\ nodeBindGroupLayout = 0
    /\ instanceBindGroup = NoBindGroup
    /\ instanceBuffer = [id |-> 0, size |-> 0]
    /\ primitiveInstances = NoInstances
    /\ record = NoRecord
    /\ lastRecord = NoRecord
    /\ cached = [bindGroupLayout |-> <<>>, pipeline |-> <<>>, solidColorTexture |-> <<>>]
    /\ created = 0
    /\ gpuBuffers = <<>>
    /\ uniform = [mi \in DOMAIN MaterialJson |-> 0]
    /\ texturesView = [mi \in DOMAIN MaterialJson |-> <<>>]
    /\ thrown = "none"
    /\ renderPass = <<>>
    /\ writes = <<>>
    /\ uploads = <<>>
    /\ builds = 0

\* A scene and the meshes before anything was built.
Unbuilt ==
    /\ NothingBuilt
    /\ lastOp = "load"

\* The scene came from a load that returned: the container has the JSON of
\* the scene behind a well-formed header.
Returned ==
    /\ container = GoodContainer(
                       Json(a_meshs,
                            [n \in DOMAIN nodes |->
                                JsonNode(nodes[n].a_mesh, nodes[n].children,
                                         nodes[n].transform)],
                            children))
    /\ loadState = "returned"
    /\ loadError = ""
    /\ parsed = LoadContainer(container).parsed
    /\ bufferViews = LoadContainer(container).bufferViews

\* The scene GLTFLoaderV2.load returns for a container without nodes, before
\* its first build.
Init ==
    /\ a_meshs \in MeshLists
    /\ nodes = <<>>
    /\ children = <<>>
    /\ meshes = [m \in MeshObjects |-> NewMesh("0", FALSE)]
    /\ Unbuilt
    /\ Returned
    /\ NoMipMap
    /\ NoComposer
    /\ NoPrimitiveObjects

vars == <<sceneVars, meshVars, loaderVars, mipVars, viewVars, composerVars, layoutVars>>

\* Building, rendering and growing the scene.
Next ==
    \/ Build
    \/ Render
    \/ \E parent \in 0..Len(nodes), m \in 0..Len(a_meshs) : AddNode(parent, m)

Spec == Init /\ [][Next]_vars

\* Building a scene of root nodes, moving its nodes and refreshing the
\* instance buffer.
NextBuffers ==
    \/ Build
    \/ UpdateBuffers
    \/ \E m \in 0..Len(a_meshs) : AddNode(0, m)
    \/ \E n \in DOMAIN nodes, t \in TransformValues : SetTransform(n, t)

\* The containers whose instance buffers are refreshed.
BufferMeshLists == {
    << <<PrimA>> >>,
    << <<PrimA, PrimB>> >>,
    << <<PrimC>>, <<PrimA>> >>,
    << <<PrimA, PrimA>> >> }

InitBuffers == Init /\ a_meshs \in BufferMeshLists

SpecBuffers == InitBuffers /\ [][NextBuffers]_vars

\* The containers loaded with their nodes: a mesh of two primitives under one
\* node, and two meshes under a node and its child.
LoadedScenes == {
    [a_meshs  |-> << <<PrimA, PrimC>> >>,
     nodes    |-> <<[a_mesh |-> 1, children |-> <<>>, transform |-> 1]>>,
     children |-> <<1>>],
    [a_meshs  |-> << <<PrimC>>, <<PrimA>> >>,
     nodes    |-> <<[a_mesh |-> 1, children |-> <<2>>, transform |-> 1],
                    [a_mesh |-> 2, children |-> <<>>, transform |-> 1]>>,
     children |-> <<1>>] }

\* The scene GLTFLoaderV2.load returns for a container with nodes, and meshes
\* with and without wireframe, with and without a base colour texture.
InitCache ==
    /\ \E scene \in LoadedScenes :
          /\ a_meshs = scene.a_meshs
          /\ nodes = scene.nodes
          /\ children = scene.children
    /\ meshes \in [MeshObjects -> {NewMesh(mi, w) : mi \in {"0", "4"}, w \in BOOLEAN}]
    /\ Unbuilt
    /\ Returned
    /\ NoMipMap
    /\ NoComposer
    /\ NoPrimitiveObjects

\* The scene and the meshes are built with the same caches, in any order.
NextCache ==
    \/ Build
    \/ \E m \in MeshObjects : MeshBuild(m)

SpecCache == InitCache /\ [][NextCache]_vars

\* The JSON chunks of the containers loaded.
Jsons == {
    \* one mesh, one node
    Json(<< <<PrimA>> >>, <<JsonNode(1, <<>>, 1)>>, <<1>>),
    \* two root nodes, the first with a child of the other mesh
    Json(<< <<PrimC>>, <<PrimA>> >>,
         <<JsonNode(1, <<2>>, 1), JsonNode(2, <<>>, 2), JsonNode(1, <<>>, 2)>>, <<1, 3>>),
    \* a root without a mesh over a node with a child and a leaf, listed in
    \* json.nodes in another order than the tree has
    Json(<< <<PrimA>> >>,
         <<JsonNode(1, <<>>, 1), JsonNode(1, <<4>>, 2), JsonNode(0, <<2, 1>>, 1),
           JsonNode(1, <<>>, 2)>>, <<3>>),
    \* a mesh no node of the scene refers to
    Json(<< <<PrimA>>, <<PrimB>> >>, <<JsonNode(1, <<>>, 1)>>, <<1>>),
    \* a primitive with a mode that is no GLTFRenderMode
    Json(<< <<PrimA, PrimM>>, <<PrimB>> >>,
         <<JsonNode(1, <<>>, 1), JsonNode(2, <<>>, 1)>>, <<1, 2>>),
    \* a primitive with an attribute that has no shader location
    Json(<< <<PrimU, PrimB>> >>, <<JsonNode(1, <<>>, 1)>>, <<1>>),
    \* a primitive with indices and one without, under two nodes
    Json(<< <<PrimI, PrimB>> >>,
         <<JsonNode(1, <<>>, 1), JsonNode(1, <<>>, 2)>>, <<1, 2>>) }

\* The containers: every header, with a JSON chunk that parses or does not.
Containers ==
    [magic : {MAGIC_NUMBER, 0}, version : {1, VERSION},
     jsonChunkType : {JSON_CHUNK_TYPE, BINARY_CHUNK_TYPE},
     jsonText : {"json", "malformed"},
     binaryChunkType : {BINARY_CHUNK_TYPE, JSON_CHUNK_TYPE},
     json : Jsons]

\* Before load: there is a container and no scene.
InitLoad ==
    /\ container \in Containers
    /\ loadState = "pending"
    /\ loadError = ""
    /\ parsed = NothingParsed
    /\ a_meshs = <<>>
    /\ nodes = <<>>
    /\ children = <<>>
    /\ meshes = [m \in MeshObjects |-> NewMesh("0", FALSE)]
    /\ NothingBuilt
    /\ lastOp = "none"
    /\ bufferViews = <<>>
    /\ NoMipMap
    /\ NoComposer
    /\ NoPrimitiveObjects

\* The scene load has returned is built and rendered.
BuildLoaded == loadState = "returned" /\ Build

RenderLoaded == loadState = "returned" /\ Render

\* Loading a container, then building and rendering the scene.
NextLoad ==
    \/ Load
    \/ BuildLoaded
    \/ RenderLoaded

SpecLoad == InitLoad /\ [][NextLoad]_vars

\* The textures: two formats, two widths, two heights.
SourceTextures ==
    [format : {"rgba8unorm", "rgba16float"}, width : {4, 8}, height : {4, 8}]

Targets == [texture : SourceTextures, mipLevels : {<<0>>, <<0, 2>>}]

\* A MipMap with or without a compute pass of its own, a source and a target.
InitMipMap ==
    /\ a_meshs = << <<PrimA>> >>
    /\ nodes = <<>>
    /\ children = <<>>
    /\ meshes = [m \in MeshObjects |-> NewMesh("0", FALSE)]
    /\ Unbuilt
    /\ Returned
    /\ texture \in SourceTextures
    /\ target \in Targets
    /\ mipmap \in {NewMipMap(e) : e \in BOOLEAN}
    /\ NoComposer
    /\ NoPrimitiveObjects

NextMipMap ==
    \/ ExtractMipmap
    \/ \E prepared \in BOOLEAN : GenerateMipmaps(prepared)

SpecMipMap == InitMipMap /\ [][NextMipMap]_vars

\* An EffectComposer on a scene.
InitComposer ==
    /\ a_meshs = << <<PrimA>> >>
    /\ nodes = <<>>
    /\ children = <<>>
    /\ meshes = [m \in MeshObjects |-> NewMesh("0", FALSE)]
    /\ Unbuilt
    /\ Returned
    /\ NoMipMap
    /\ NoComposer
    /\ NoPrimitiveObjects

\* Passes are added and frames are rendered, in any order.
NextComposer ==
    \/ ComposerRender
    \/ \E pass \in {"RenderPass", "ComputePass"} : AddPass(pass)

SpecComposer == InitComposer /\ [][NextComposer]_vars

\* The buffer views: one tightly packed, one with a byteStride.
LayoutViews == {[index |-> 0, byteStride |-> 0], [index |-> 1, byteStride |-> 24]}

\* The accessors of the attributes: float vectors at two offsets of the views.
LayoutAccessors ==
    {[bufferView |-> view.index, view |-> view, byteOffset |-> offset, type |-> type] :
        view \in LayoutViews, offset \in {0, 12}, type \in {"VEC2", "VEC3"}}

\* The attributes of one primitive in the order the loader lists them, which
\* is the order of the keys of the primitive's attributes.
Listings ==
    {[i \in 1..3 |-> [name |-> names[i], shaderLocation |-> ShaderLocation[names[i]],
                      accessor |-> accessors[i]]] :
        names \in {<<"POSITION", "NORMAL", "TEXCOORD_0">>},
        accessors \in [1..3 -> LayoutAccessors]}

Reorderings(n) == {f \in [1..n -> 1..n] : \A i, j \in 1..n : f[i] = f[j] => i = j}

\* Two primitives with the same attributes, listed in two orders.
InitLayout ==
    /\ a_meshs = << <<PrimA>> >>
    /\ nodes = <<>>
    /\ children = <<>>
    /\ meshes = [m \in MeshObjects |-> NewMesh("0", FALSE)]
    /\ Unbuilt
    /\ Returned
    /\ NoMipMap
    /\ NoComposer
    /\ \E listing \in Listings, f \in Reorderings(3) :
          attributeLists = <<listing, [i \in 1..3 |-> listing[f[i]]]>>
    /\ primitiveObjects = <<NotConstructed, NotConstructed>>

NextLayout == \E i \in 1..2 : ConstructPrimitive(i)

SpecLayout == InitLayout /\ [][NextLayout]_vars

\* A Mesh before its first build, with a material and its wireframe property.
InitWatch ==
    /\ a_meshs = << <<PrimA>> >>
    /\ nodes = <<>>
    /\ children = <<>>
    /\ meshes \in {[m \in MeshObjects |->
                       IF m = 1 THEN NewMesh(mi, w) ELSE NewMesh("0", FALSE)] :
                   mi \in {"0", "4"}, w \in BOOLEAN}
    /\ Unbuilt
    /\ Returned
    /\ NoMipMap
    /\ NoComposer
    /\ NoPrimitiveObjects

\* Builds of the Mesh and changes of the watched properties of its material,
\* in any order.
NextWatch ==
    \/ MeshBuild(1)
    \/ \E property \in DOMAIN MeshWatch : MeshChange(1, property)
    \/ \E payload \in OtherPayloads : MeshNotify(1, payload)

SpecWatch == InitWatch /\ [][NextWatch]_vars

----------------------------------------------------------------------------
(* What the claims speak of *)

PrimitiveSet == {Primitives(a_meshs)[i] : i \in DOMAIN Primitives(a_meshs)}

HasMaterialJson(p) == GetField(PrimJson(a_meshs, p), "material") # "undefined"

MaterialJsonOf(p) == MaterialJson[GetField(PrimJson(a_meshs, p), "material")]

PipelineKeyOf(p) == PipelineKey(PrimJson(a_meshs, p), MaterialJsonOf(p))

\* The nodes that reference the primitive p: the nodes of its mesh.
NodesOf(p) == {n \in DOMAIN nodes : nodes[n].a_mesh = p[1]}

\* The (node, primitive) references the traversal of the scene visits.
ReferenceCount == Len(References(a_meshs, nodes, Traverse(nodes, children)))

\* The positions <<pipeline, material, draw entry>> of the render order.
Positions ==
    UNION {UNION {{<<k, j, e>> :
                      e \in DOMAIN renderPipelines[k].materialPrimitivesMap[j].primitives} :
                  j \in DOMAIN renderPipelines[k].materialPrimitivesMap} :
           k \in DOMAIN renderPipelines}

MaterialAt(x) == renderPipelines[x[1]].materialPrimitivesMap[x[2]].material

EntryAt(x) == renderPipelines[x[1]].materialPrimitivesMap[x[2]].primitives[x[3]]

\* A material entry made by the latest build: every build makes its instance
\* bind group first and makes new RenderNodes with new bind groups after it.
LatestMaterial(material) == material.bindGroup.id > instanceBindGroup.id

LatestPositions == {x \in Positions : LatestMaterial(MaterialAt(x))}

\* The draw entries the latest build made for the primitive p.
LatestOf(p) == {x \in LatestPositions : EntryAt(x).buffers = p}

Blocks(range) == {b \in 0..(range.first + range.count - 1) : b >= range.first}

\* The latest build ran to its end: this.instanceBuffer is the buffer of
\* this.instanceBindGroup.
LastBuildCompleted == builds > 0 /\ instanceBuffer.id = instanceBindGroup.buffer

----------------------------------------------------------------------------
(* C1 *)

\* C1: after build on a scene whose traversal visits N (node, primitive)
\* references, every primitive has an instance range, the ranges are pairwise
\* disjoint, each count is the number of nodes that reference the primitive, and
\* the ranges cover exactly the blocks 0..N-1 the instance buffer was sized for:
\* on every scene, also with two primitives of the same JSON. Stated for the
\* scenes whose primitives all have a material and whose meshes are all
\* referenced by a node.
C1_RangesPartitionInstances ==
    (/\ lastOp = "build"
     /\ \A p \in PrimitiveSet : HasMaterialJson(p) /\ NodesOf(p) # {})
    => /\ thrown = "none"
       /\ \A p \in PrimitiveSet : Cardinality(LatestOf(p)) = 1
       /\ \A x \in LatestPositions :
             EntryAt(x).instanceInAll.count = Cardinality(NodesOf(EntryAt(x).buffers))
       /\ \A x, y \in LatestPositions :
             x # y => Blocks(EntryAt(x).instanceInAll) \cap Blocks(EntryAt(y).instanceInAll) = {}
       /\ UNION {Blocks(EntryAt(x).instanceInAll) : x \in LatestPositions}
             = {b \in 0..ReferenceCount : b < ReferenceCount}

----------------------------------------------------------------------------
(* C2 *)

\* Every material entry of the render order was made by the latest build, and
\* every primitive has exactly one draw entry, with a range from block 0 for
\* all the nodes that reference it when it is the only primitive.
OnlyLatestBuild ==
    /\ \A x \in Positions : LatestMaterial(MaterialAt(x))
    /\ \A k \in DOMAIN renderPipelines :
          \A j \in DOMAIN renderPipelines[k].materialPrimitivesMap :
             LatestMaterial(renderPipelines[k].materialPrimitivesMap[j].material)
    /\ \A p \in PrimitiveSet :
          /\ Cardinality({x \in Positions : EntryAt(x).buffers = p}) = 1
          /\ \A x \in Positions :
                EntryAt(x).buffers = p /\ Cardinality(PrimitiveSet) = 1
                => EntryAt(x).instanceInAll =
                      [first |-> 0, count |-> Cardinality(NodesOf(p)), defined |-> TRUE]

\* C2: a build that completes on a scene that was built before and has had
\* nodes added since leaves in the render order only the draw entries of this
\* build: one per primitive, none of the earlier build.
C2_RebuildReplacesRenderOrder ==
    [][(/\ lastOp' = "build"
        /\ thrown' = "none"
        /\ LastBuildCompleted
        /\ primitiveInstances.total < ReferenceCount)
       => OnlyLatestBuild']_vars

----------------------------------------------------------------------------
(* C3 *)

\* The material entries of the latest build under the pipeline entry k whose
\* material has the serialized content.
LatestMaterialsUnder(k, content) ==
    {j \in DOMAIN renderPipelines[k].materialPrimitivesMap :
        /\ LatestMaterial(renderPipelines[k].materialPrimitivesMap[j].material)
        /\ Stringify(MaterialJsonOf(
               renderPipelines[k].materialPrimitivesMap[j].material.primitive)) = content}

\* The bind groups the latest build made for the materials of the content.
LatestBindGroups(content) ==
    {MaterialAt(x).bindGroup.id : x \in {y \in LatestPositions :
        Stringify(MaterialJsonOf(MaterialAt(y).primitive)) = content}}

PipelineStateOf(p) ==
    VertexArgs(PrimJson(a_meshs, p), MaterialJsonOf(p))
    \o VertexContext(PrimJson(a_meshs, p)) \o FragmentContext(MaterialJsonOf(p))

SamePipelineState(p, q) == Stringify(PipelineStateOf(p)) = Stringify(PipelineStateOf(q))

SameMaterialContent(p, q) == Stringify(MaterialJsonOf(p)) = Stringify(MaterialJsonOf(q))

\* C3: after a build, two primitives with byte-identical serialized material and
\* byte-identical pipeline state have one pipeline entry and under it one
\* material entry of that build, with one bind group, that lists the draw
\* entries of both.
C3_IdenticalMaterialsShareOneEntry ==
    LastBuildCompleted =>
    \A p, q \in PrimitiveSet :
       (p # q /\ SameMaterialContent(p, q) /\ SamePipelineState(p, q))
       => /\ Cardinality({k \in DOMAIN renderPipelines :
                             renderPipelines[k].key = PipelineKeyOf(p)}) = 1
          /\ \E x \in LatestOf(p), y \in LatestOf(q) :
                /\ x[1] = y[1] /\ x[2] = y[2]
                /\ renderPipelines[x[1]].key = PipelineKeyOf(p)
                /\ LatestMaterialsUnder(x[1], Stringify(MaterialJsonOf(p))) = {x[2]}
          /\ Cardinality(LatestBindGroups(Stringify(MaterialJsonOf(p)))) = 1

C3_Witness ==
    /\ LastBuildCompleted
    /\ \E p, q \in PrimitiveSet :
          /\ p # q /\ SameMaterialContent(p, q) /\ SamePipelineState(p, q)
          /\ LatestOf(p) # {} /\ LatestOf(q) # {}

----------------------------------------------------------------------------
(* C4 *)

\* C4: after a build, two primitives with identical pipeline state and different
\* serialized material share one pipeline entry and have two material entries
\* under it, with two bind groups, each listing only draw entries of primitives
\* of its material.
C4_DifferentMaterialsSharePipeline ==
    LastBuildCompleted =>
    \A p, q \in PrimitiveSet :
       (SamePipelineState(p, q) /\ ~SameMaterialContent(p, q))
       => /\ Cardinality({k \in DOMAIN renderPipelines :
                             renderPipelines[k].key = PipelineKeyOf(p)}) = 1
          /\ \E x \in LatestOf(p), y \in LatestOf(q) :
                /\ x[1] = y[1] /\ x[2] # y[2]
                /\ MaterialAt(x).bindGroup.id # MaterialAt(y).bindGroup.id
                /\ \A z \in LatestPositions :
                      (z[1] = x[1] /\ z[2] = x[2]) => SameMaterialContent(EntryAt(z).buffers, p)
                /\ \A z \in LatestPositions :
                      (z[1] = y[1] /\ z[2] = y[2]) => SameMaterialContent(EntryAt(z).buffers, q)

C4_Witness ==
    /\ LastBuildCompleted
    /\ \E p, q \in PrimitiveSet :
          /\ SamePipelineState(p, q) /\ ~SameMaterialContent(p, q)
          /\ LatestOf(p) # {} /\ LatestOf(q) # {}

----------------------------------------------------------------------------
(* C6 *)

\* C6: the keys of build do not depend on the field order: two primitives with
\* structurally equal JSON have the same group key, and two primitives whose
\* materials are structurally equal have the same material key and, after a
\* build, the same material bind group; with structurally equal pipeline
\* arguments they also have the same pipeline entry.
C6_KeysIgnoreFieldOrder ==
    LastBuildCompleted =>
    \A p, q \in PrimitiveSet :
       /\ StructurallyEqual(PrimJson(a_meshs, p), PrimJson(a_meshs, q))
          => PrimitiveNodesKey(PrimJson(a_meshs, p)) = PrimitiveNodesKey(PrimJson(a_meshs, q))
       /\ StructurallyEqual(MaterialJsonOf(p), MaterialJsonOf(q))
          => /\ SameMaterialContent(p, q)
             /\ \A x \in LatestOf(p), y \in LatestOf(q) :
                   MaterialAt(x).bindGroup.id = MaterialAt(y).bindGroup.id
       /\ (/\ StructurallyEqual(MaterialJsonOf(p), MaterialJsonOf(q))
           /\ Canonicalize(VertexArgs(PrimJson(a_meshs, p), MaterialJsonOf(p)))
                 = Canonicalize(VertexArgs(PrimJson(a_meshs, q), MaterialJsonOf(q)))
           /\ VertexContext(PrimJson(a_meshs, p)) = VertexContext(PrimJson(a_meshs, q)))
          => \A x \in LatestOf(p), y \in LatestOf(q) : x[1] = y[1]

----------------------------------------------------------------------------
(* C8 *)

\* What the GPU holds in this.instanceBuffer.
InstanceBufferData ==
    gpuBuffers[CHOOSE i \in DOMAIN gpuBuffers : gpuBuffers[i].id = instanceBuffer.id].data

\* The nodes of the group of the primitive p, in the order they were pushed.
GroupOf(p) ==
    primitiveInstances.matrices[
        MapIndex(primitiveInstances.matrices, Stringify(PrimJson(a_meshs, p)))].nodes

\* C8: two updateBuffers calls in succession, with no change of the scene between
\* them, upload the same contents; and after an updateBuffers call on a built
\* scene, block first+i of every group of the instance buffer holds the world
\* matrix followed by the world normal matrix of the i-th node of the group.
C8_UpdateBuffersIdempotent ==
    /\ Len(uploads) = 2 => uploads[1] = uploads[2]
    /\ (lastOp = "updateBuffers" /\ LastBuildCompleted)
       => /\ thrown = "none"
          /\ uploads # <<>>
          /\ uploads[Len(uploads)] = InstanceBufferData
          /\ \A x \in LatestPositions :
                \A i \in 1..EntryAt(x).instanceInAll.count :
                   InstanceBufferData[EntryAt(x).instanceInAll.first + i] =
                      <<[matrix |-> "world",
                         of |-> nodes[GroupOf(EntryAt(x).buffers)[i]].transform],
                        [matrix |-> "worldNormal",
                         of |-> nodes[GroupOf(EntryAt(x).buffers)[i]].transform]>>

C8_Witness ==
    /\ Len(uploads) = 2
    /\ lastOp = "updateBuffers"
    /\ LastBuildCompleted
    /\ Cardinality(LatestPositions) >= 2
    /\ \E n \in DOMAIN nodes : nodes[n].a_mesh # 0 /\ nodes[n].transform = 2

----------------------------------------------------------------------------
(* C9 *)

\* The blocks the last walk wrote for the primitive p.
BlocksWritten(ws, p) == {ws[i].block : i \in {j \in DOMAIN ws : ws[j].primitive = p}}

\* C9: an updateBuffers call on a built scene throws nothing, writes for every
\* primitive exactly the blocks of the range the latest build recorded on its
\* draw entry and writes for no other primitive, and leaves the render order
\* with its ranges, the instance buffer and its size as they were.
C9_UpdateBuffersKeepsRanges ==
    [][(lastOp' = "updateBuffers" /\ LastBuildCompleted)
       => /\ thrown' = "none"
          /\ renderPipelines' = renderPipelines
          /\ instanceBuffer' = instanceBuffer
          /\ Len(primitiveInstances'.arrayBuffer) = instanceBuffer.size
          /\ Len(InstanceBufferData') = instanceBuffer.size
          /\ \A x \in LatestPositions :
                BlocksWritten(writes', EntryAt(x).buffers) = Blocks(EntryAt(x).instanceInAll)
          /\ \A i \in DOMAIN writes' :
                \E x \in LatestPositions : EntryAt(x).buffers = writes'[i].primitive]_vars

C9_Witness ==
    /\ lastOp = "updateBuffers"
    /\ LastBuildCompleted
    /\ thrown = "none"
    /\ \E x \in LatestPositions :
          /\ EntryAt(x).instanceInAll.first > 0
          /\ BlocksWritten(writes, EntryAt(x).buffers) # {}

----------------------------------------------------------------------------
(* C10 *)

\* The place of the group of the primitive p among the groups, in the order in
\* which the traversal first saw them.
FirstSeen(p) == MapIndex(primitiveInstances.matrices, Stringify(PrimJson(a_meshs, p)))

\* C10 as claimed: after a build, a group the traversal saw first before another
\* group has the smaller first.
C10_FirstSeenOrder ==
    LastBuildCompleted =>
    \A x, y \in LatestPositions :
       FirstSeen(EntryAt(x).buffers) < FirstSeen(EntryAt(y).buffers)
       => EntryAt(x).instanceInAll.first < EntryAt(y).instanceInAll.first

\* C10: after a build, the ranges follow the order of the primitives in the mesh
\* list, not the order of the traversal: a primitive of an earlier mesh, or an
\* earlier primitive of the same mesh, has its whole range before the range of
\* the later primitive.
C10_MeshListOrder ==
    LastBuildCompleted =>
    \A x, y \in LatestPositions :
       (\/ EntryAt(x).buffers[1] < EntryAt(y).buffers[1]
        \/ /\ EntryAt(x).buffers[1] = EntryAt(y).buffers[1]
           /\ EntryAt(x).buffers[2] < EntryAt(y).buffers[2])
       => /\ EntryAt(x).instanceInAll.first < EntryAt(y).instanceInAll.first
          /\ EntryAt(x).instanceInAll.first + EntryAt(x).instanceInAll.count
                <= EntryAt(y).instanceInAll.first

C10_Witness ==
    /\ LastBuildCompleted
    /\ \E x, y \in LatestPositions :
          /\ EntryAt(x).buffers[1] < EntryAt(y).buffers[1]
          /\ FirstSeen(EntryAt(y).buffers) < FirstSeen(EntryAt(x).buffers)
          /\ EntryAt(x).instanceInAll.first < EntryAt(y).instanceInAll.first

----------------------------------------------------------------------------
(* C5 *)

\* The cache holds one entry for a key and one key for a handle.
OnePerKey(cache) ==
    \A i, j \in DOMAIN cache :
       (cache[i].key = cache[j].key \/ cache[i].handle = cache[j].handle) => i = j

\* The handle is what the cache holds under the key.
CachedUnder(cache, key, handle) == CacheHas(cache, key) /\ CacheHandle(cache, key) = handle

BuiltMeshes == {m \in MeshObjects : meshes[m].builds > 0}

VertexLayoutKeyOf(m) == CanonicalizeList(meshes[m].geometryBuildResult.bindGroupLayoutEntries)

FragmentLayoutKeyOf(m) == CanonicalizeList(meshes[m].materialBuildResult.bindGroupLayoutEntries)

----------------------------------------------------------------------------
(* C7 *)

\* The views are those of the solid colour textures the cache holds.
ViewsFromCache(views) ==
    \A i \in DOMAIN views :
       views[i].default
       => CachedUnder(cached.solidColorTexture,
                      Canonicalize(SolidColorTextureDescriptor(Textures[i])),
                      views[i].texture)

----------------------------------------------------------------------------
(* C11 *)

\* The node n and the nodes below it.
RECURSIVE Descendants(_)
Descendants(n) ==
    {n} \cup UNION {Descendants(nodes[n].children[i]) : i \in DOMAIN nodes[n].children}

\* The child lists of the scene and of its nodes.
SiblingLists == {children} \cup {nodes[n].children : n \in DOMAIN nodes}

\* The node a comes before the node b in depth-first pre-order: a is above b, or
\* a is in the subtree of an earlier sibling than the subtree b is in.
Precedes(a, b) ==
    \/ a # b /\ b \in Descendants(a)
    \/ \E L \in SiblingLists :
          \E i, j \in DOMAIN L :
             i < j /\ a \in Descendants(L[i]) /\ b \in Descendants(L[j])

\* The arrayBuffer.set calls the last walk made for the primitive p.
WritesOf(p) == {i \in DOMAIN writes : writes[i].primitive = p}

\* C11: the traversal visits the nodes depth-first, a parent before its children
\* and siblings in the order of the child list, and the transforms of a group
\* are appended in that order: after a build, the blocks of the range of every
\* primitive hold the transforms of the nodes that reference it, one block for
\* every node, and a node that comes earlier in depth-first pre-order has the
\* lower block.
C11_InstancesInTraversalOrder ==
    (lastOp = "build" /\ LastBuildCompleted) =>
    \A x \in LatestPositions :
       /\ {writes[i].node : i \in WritesOf(EntryAt(x).buffers)} = NodesOf(EntryAt(x).buffers)
       /\ Cardinality(WritesOf(EntryAt(x).buffers)) = EntryAt(x).instanceInAll.count
       /\ \A i \in WritesOf(EntryAt(x).buffers) :
             /\ writes[i].block \in Blocks(EntryAt(x).instanceInAll)
             /\ InstanceBufferData[writes[i].block + 1] =
                   <<[matrix |-> "world", of |-> nodes[writes[i].node].transform],
                     [matrix |-> "worldNormal", of |-> nodes[writes[i].node].transform]>>
       /\ \A i, j \in WritesOf(EntryAt(x).buffers) :
             (writes[i].block < writes[j].block)
             <=> Precedes(writes[i].node, writes[j].node)

C11_Witness ==
    /\ lastOp = "build"
    /\ LastBuildCompleted
    /\ \E x \in LatestPositions :
          \E i, j \in WritesOf(EntryAt(x).buffers) :
             /\ writes[i].block < writes[j].block
             /\ writes[j].node \notin Descendants(writes[i].node)
             /\ \E n \in DOMAIN nodes :
                   writes[i].node # n /\ writes[i].node \in Descendants(n)

----------------------------------------------------------------------------
(* C12 *)

\* The setPipeline calls of the last render, and its setBindGroup calls for
\* the bind group of a material, in the order they were made.
PipelineSets == SelectSeq(renderPass, LAMBDA c : c.op = "setPipeline")

MaterialSets == SelectSeq(renderPass, LAMBDA c : c.op = "setBindGroup" /\ c.args[1] = 2)

\* The material entries of the render order: <<pipeline, material>>.
MaterialEntries ==
    UNION {{<<k, j>> : j \in DOMAIN renderPipelines[k].materialPrimitivesMap} :
           k \in DOMAIN renderPipelines}

\* C12: a render call sets the pipeline once for every pipeline entry and the
\* material bind group once for every material entry, and no setPipeline and no
\* setBindGroup of a material binds the object that the call before it for the
\* same slot has bound, also where the last material of a pipeline entry is the
\* first material of the next. Stated for a render order that one build that
\* ran to its end has made.
C12_NoBindingRepeated ==
    (/\ lastOp = "render"
     /\ LastBuildCompleted
     /\ \A x \in MaterialEntries :
           LatestMaterial(renderPipelines[x[1]].materialPrimitivesMap[x[2]].material))
    =>
       /\ Len(PipelineSets) = Len(renderPipelines)
       /\ Len(MaterialSets) = Cardinality(MaterialEntries)
       /\ \A i \in DOMAIN PipelineSets :
             i > 1 => PipelineSets[i].args # PipelineSets[i - 1].args
       /\ \A i \in DOMAIN MaterialSets :
             i > 1 => MaterialSets[i].args # MaterialSets[i - 1].args

----------------------------------------------------------------------------
(* C13 *)

\* The draw calls of the last render, in the order they were made.
DrawCalls == SelectSeq(renderPass, LAMBDA c : c.op \in {"draw", "drawIndexed"})

\* The draw entries of the render order, in the order of the pipeline entries,
\* of the material entries under each and of the entries of each material.
RECURSIVE EntriesOfMaterials(_)
EntriesOfMaterials(mpm) ==
    IF mpm = <<>> THEN <<>>
    ELSE Head(mpm).primitives \o EntriesOfMaterials(Tail(mpm))

RECURSIVE EntriesOfPipelines(_)
EntriesOfPipelines(rp) ==
    IF rp = <<>> THEN <<>>
    ELSE EntriesOfMaterials(Head(rp).materialPrimitivesMap) \o EntriesOfPipelines(Tail(rp))

DrawEntries == EntriesOfPipelines(renderPipelines)

\* C13: a render call makes one draw call for every draw entry, in the order of
\* the entries, with the count of the entry as the instance count and its first
\* as the first instance: an indexed draw of the element count of the index
\* accessor for an entry with indices, else a draw of the vertexCount of the
\* entry.
C13_OneDrawCallPerEntry ==
    lastOp = "render" =>
       /\ Len(DrawCalls) = Len(DrawEntries)
       /\ \A i \in DOMAIN DrawCalls :
             DrawCalls[i] =
                IF DrawEntries[i].indices # "undefined"
                THEN [op |-> "drawIndexed",
                      args |-> <<IndexCountOf(DrawEntries[i].indices),
                                 DrawEntries[i].instanceInAll.count, 0, 0,
                                 DrawEntries[i].instanceInAll.first>>]
                ELSE [op |-> "draw",
                      args |-> <<DrawEntries[i].vertexCount,
                                 DrawEntries[i].instanceInAll.count, 0,
                                 DrawEntries[i].instanceInAll.first>>]

C13_Witness ==
    /\ lastOp = "render"
    /\ \E i, j \in DOMAIN DrawCalls :
          /\ DrawCalls[i].op = "drawIndexed"
          /\ DrawCalls[j].op = "draw"
          /\ DrawEntries[i].instanceInAll.count = 2
          /\ DrawEntries[j].instanceInAll.first = 2
          /\ DrawEntries[i].vertexCount # IndexCountOf(DrawEntries[i].indices)

----------------------------------------------------------------------------
(* C14 *)

\* The groups the traversal of the scene creates, one for every serialized
\* primitive a visited node references.
TraversalGroups ==
    RegisterNodes(<<>>, References(a_meshs, nodes, Traverse(nodes, children)))

HasGroup(p) ==
    \E i \in DOMAIN TraversalGroups :
       /\ TraversalGroups[i].key = Stringify(PrimJson(a_meshs, p))
       /\ Len(TraversalGroups[i].nodes) >= 1

\* C14: after a build of a loaded container, every primitive of the mesh pass
\* has a group the traversal created, so the pass does not fail on a group that
\* is missing, and every draw entry of the render order has a count of at least
\* 1: also when a mesh of the container is referenced by no node of the scene.
\* Stated for the containers whose primitives all have a material.
C14_EveryPrimitiveHasAGroup ==
    (/\ lastOp = "build"
     /\ loadState = "returned"
     /\ \A p \in PrimitiveSet : HasMaterialJson(p))
    => /\ \A p \in PrimitiveSet : HasGroup(p)
       /\ thrown # "TypeError"
       /\ \A x \in Positions : EntryAt(x).instanceInAll.count >= 1

----------------------------------------------------------------------------
(* C15 *)

DistinctPrimitives ==
    \A p, q \in PrimitiveSet :
       p # q => Stringify(PrimJson(a_meshs, p)) # Stringify(PrimJson(a_meshs, q))

\* C15: a build of a scene with a primitive that has no material completes, the
\* primitive without a material gets no draw entry, and every other primitive
\* gets its draw entry under a pipeline and a material entry of this build.
\* Stated for the scenes whose meshes are all referenced by a node and whose
\* primitives differ in their JSON.
C15_MaterialLessPrimitiveDeferred ==
    (/\ lastOp = "build"
     /\ \E p \in PrimitiveSet : ~HasMaterialJson(p)
     /\ \A p \in PrimitiveSet : NodesOf(p) # {}
     /\ DistinctPrimitives)
    => /\ thrown = "none"
       /\ LastBuildCompleted
       /\ \A p \in PrimitiveSet :
             IF HasMaterialJson(p) THEN Cardinality(LatestOf(p)) = 1
             ELSE LatestOf(p) = {}

----------------------------------------------------------------------------
(* C16 *)

\* The pipelines of the pipeline entries and the bind groups of the material
\* entries, in the insertion order of this.renderPipelines and of the
\* materialPrimitivesMap of every entry.
PipelineOrder == [k \in DOMAIN renderPipelines |-> <<renderPipelines[k].pipeline>>]

RECURSIVE MaterialOrderFrom(_)
MaterialOrderFrom(rp) ==
    IF rp = <<>> THEN <<>>
    ELSE [j \in DOMAIN Head(rp).materialPrimitivesMap |->
             <<Head(rp).materialPrimitivesMap[j].material.groupIndex,
               Head(rp).materialPrimitivesMap[j].material.bindGroup.id>>]
         \o MaterialOrderFrom(Tail(rp))

MaterialOrder == MaterialOrderFrom(renderPipelines)

\* C16: only a build changes the render order, every render call iterates the
\* pipeline entries and the material entries under each in their insertion
\* order, so that render calls without a build between them iterate in the same
\* order, and no pipeline object is the pipeline of two pipeline entries.
C16_RenderOrderStableAndUnsplit ==
    [][/\ lastOp' # "build" => renderPipelines' = renderPipelines
       /\ lastOp' = "render" =>
             /\ [i \in DOMAIN PipelineSets' |-> PipelineSets'[i].args] = PipelineOrder'
             /\ [i \in DOMAIN MaterialSets' |-> MaterialSets'[i].args] = MaterialOrder'
       /\ (lastOp = "render" /\ lastOp' = "render") => renderPass' = renderPass
       /\ \A j, k \in DOMAIN renderPipelines' :
             j # k => renderPipelines'[j].pipeline # renderPipelines'[k].pipeline]_vars

C16_Witness ==
    /\ lastOp = "render"
    /\ LastBuildCompleted
    /\ lastRecord.pipelineSets = 2
    /\ Len(renderPipelines) = 2
    /\ Len(MaterialOrder) = 3
    /\ builds = 2

----------------------------------------------------------------------------
(* C17 *)

\* The four header faults of a container, in the order of the claim.
HeaderFaults(c) ==
    << c.magic # MAGIC_NUMBER, c.version # VERSION,
       c.jsonChunkType # JSON_CHUNK_TYPE, c.binaryChunkType # BINARY_CHUNK_TYPE >>

HeaderFaultErrors ==
    << "Provided file is not a gltf file",
       "Provided file is not gltf version 2",
       "Invalid glB: The first chunk of the glB file is not a JSON chunk!",
       "Invalid glB: The second chunk of the glB file is not a binary chunk!" >>

FirstHeaderFault(c) ==
    CHOOSE i \in 1..4 : HeaderFaults(c)[i] /\ \A j \in 1..(i - 1) : ~HeaderFaults(c)[j]

----------------------------------------------------------------------------
(* C18 *)

WellFormed(c) == c = GoodContainer(c.json)

RecognizedMode(pjson) ==
    GetField(pjson, "mode") \in {"undefined", "0", "1", "2", "3", "4", "5", "6"}

\* C18: a load of a well-formed container returns a scene also when a primitive
\* has an unrecognized topology mode: that primitive is skipped, and every mesh
\* is in the scene with all its other primitives.
C18_UnsupportedModeSkipped ==
    (loadState # "pending" /\ WellFormed(container))
    => /\ loadState = "returned"
       /\ thrown # "Error"
       /\ a_meshs = [m \in DOMAIN container.json.meshes |->
                        SelectSeq(container.json.meshes[m], RecognizedMode)]

----------------------------------------------------------------------------
(* C19 *)

LoadedPrimitives == {PrimJson(a_meshs, p) : p \in PrimitiveSet}

\* C19: a primitive with an attribute that has no shader location is skipped by
\* the load: no primitive of the returned scene has fewer attribute accessors
\* than its JSON has attributes.
C19_UnknownAttributeSkipped ==
    loadState = "returned"
    => \A pjson \in LoadedPrimitives :
          AttributeAccessors(pjson) = AttributeNames(GetField(pjson, "attributes"))

----------------------------------------------------------------------------
(* C20 *)

FormatMismatch == texture.format # target.texture.format

SizeMismatch == texture.width # target.texture.width \/ texture.height # target.texture.height

\* C20: an extractMipmap call with a target whose format or whose width or
\* height differs from that of the source fails with an error, and fails before
\* any GPU work of the extraction: the call creates no compute pipeline, no
\* texture view and no bind group, encodes nothing on the compute pass, and
\* does not end the pass or submit it.
C20_MismatchFailsBeforeGpuWork ==
    [][(/\ mipmap'.calls = mipmap.calls + 1
        /\ mipmap'.lastCall = "extractMipmap"
        /\ (FormatMismatch \/ SizeMismatch))
       => /\ mipmap'.error =
                IF FormatMismatch
                THEN "extractMipmap target format must same with src texture format"
                ELSE "extractMipmap target size must same with src texture size"
          /\ mipmap'.created = mipmap.created
          /\ mipmap'.commands = mipmap.commands
          /\ mipmap'.ended = mipmap.ended
          /\ mipmap'.submitted = mipmap.submitted]_vars

C20_Witness ==
    /\ mipmap.calls >= 1
    /\ mipmap.lastCall = "extractMipmap"
    /\ ~FormatMismatch
    /\ texture.width = target.texture.width
    /\ texture.height # target.texture.height
    /\ mipmap.error = "extractMipmap target size must same with src texture size"
    /\ mipmap.needEndPass
    /\ ~mipmap.ended
    /\ mipmap.submitted = 0
    /\ mipmap.commands = <<>>

----------------------------------------------------------------------------
(* C21 *)

\* C21: a build that fails on a structural error of the scene, a primitive
\* without a material or a primitive no group was registered for, fails before
\* it has allocated a GPU object: the device has created nothing, no buffer view
\* was uploaded, and the scene has no new instance buffer, instance bind group
\* or pipeline entry.
C21_StructuralErrorBeforeAllocation ==
    [][(/\ builds' = builds + 1
        /\ lastOp' = "build"
        /\ thrown' = "TypeError")
       => /\ created' = created
          /\ bufferViews' = bufferViews
          /\ gpuBuffers' = gpuBuffers
          /\ instanceBindGroup' = instanceBindGroup
          /\ renderPipelines' = renderPipelines
          /\ cached' = cached]_vars

----------------------------------------------------------------------------
(* C22 *)

MaterialIndexOf(p) == GetField(PrimJson(a_meshs, p), "material")

\* The materials of the container that more than one primitive references.
SharedMaterials ==
    {mi \in DOMAIN MaterialJson :
        \E p, q \in PrimitiveSet :
           p # q /\ MaterialIndexOf(p) = mi /\ MaterialIndexOf(q) = mi}

\* C22: after a build that completes, the uniform buffer in the bind group of a
\* material that more than one primitive references is this.uniform of the
\* material, the buffer MeshPhysicalMaterial.update writes the uniform values
\* to.
C22_SharedBindGroupHoldsUniform ==
    (lastOp = "build" /\ thrown = "none")
    => \A mi \in SharedMaterials :
          \A x \in LatestPositions :
             MaterialIndexOf(MaterialAt(x).primitive) = mi
             => MaterialAt(x).bindGroup.buffer = uniform[mi]

----------------------------------------------------------------------------
(* C23 *)

\* C23: on a MipMap that owns its command encoder, whatever generateMipmaps and
\* extractMipmap calls are made, the compute pass is ended at most once, the
\* encoder is submitted at most once, and no command is encoded on the pass
\* after it was ended.
C23_PassEndedOnce ==
    mipmap.needEndPass
    => /\ mipmap.ends <= 1
       /\ mipmap.submitted <= 1
       /\ mipmap.late = 0

----------------------------------------------------------------------------
(* C24 *)

\* The methods an onChange call with the payload has to invoke, in order.
RECURSIVE ExpectedStages(_)
ExpectedStages(payload) ==
    IF payload = <<>> THEN <<>>
    ELSE <<Head(payload)>>
         \o (IF Head(payload) \in {"buildGeometry", "buildComponent"}
             THEN <<"buildVertexResources">>
             ELSE IF Head(payload) = "buildMaterial" THEN <<"buildFragmentResources">>
             ELSE <<>>)
         \o ExpectedStages(Tail(payload))

StageNames(mesh) == [i \in DOMAIN mesh.stages |-> mesh.stages[i].stage]

\* C24: an onChange call on a Mesh that was built runs the stages of its
\* payload in their order, buildVertexResources right after every geometry or
\* component stage and buildFragmentResources right after every material stage.
\* For a change of wireframe these are buildGeometry, buildVertexResources and
\* buildPipeline: the pipeline is the one the cache holds for the shader and the
\* bind group layouts of the geometry built in this call.
C24_StagesInWatchOrder ==
    [][\A m \in MeshObjects :
          (meshes'[m].changes = meshes[m].changes + 1 /\ meshes[m].buildOptions)
          => /\ thrown' = "none"
             /\ StageNames(meshes'[m]) = ExpectedStages(meshes'[m].payload)
             /\ meshes'[m].wireframe # meshes[m].wireframe
                => /\ StageNames(meshes'[m])
                         = <<"buildGeometry", "buildVertexResources", "buildPipeline">>
                   /\ meshes'[m].geometryBuildResult.code
                         = IF meshes'[m].wireframe THEN "wireframe.wgsl" ELSE "normal.wgsl"
                   /\ meshes'[m].vertexResources.bindGroupLayouts[2]
                         = CacheHandle(cached'.bindGroupLayout,
                              CanonicalizeList(
                                 meshes'[m].geometryBuildResult.bindGroupLayoutEntries))
                   /\ meshes'[m].renderPipeline
                         = CacheHandle(cached'.pipeline, MeshPipelineDescriptor(meshes'[m]))]_vars

C24_Witness ==
    /\ lastOp = "onChange"
    /\ thrown = "none"
    /\ meshes[1].buildOptions
    /\ meshes[1].wireframe
    /\ meshes[1].payload = <<"buildGeometry", "buildPipeline">>
    /\ StageNames(meshes[1]) = <<"buildGeometry", "buildVertexResources", "buildPipeline">>
    /\ meshes[1].geometryBuildResult.code = "wireframe.wgsl"

----------------------------------------------------------------------------
(* C25 *)

\* C25: in every order of builds and changes of watched properties, every
\* stage an onChange call invokes is given build options that a Mesh.build has
\* set, the results it reads are there, and the call does not fail.
C25_StagesHaveBuildOptions ==
    \A m \in MeshObjects :
       /\ \A i \in DOMAIN meshes[m].stages : meshes[m].stages[i].options
       /\ (lastOp = "onChange" /\ meshes[m].changes > 0) => thrown = "none"

----------------------------------------------------------------------------
(* C26 *)

\* What a render call did after the canvas was appended.
RenderLog(c) ==
    IF c.log # <<>> /\ c.log[1].op = "appendCanvas" THEN Tail(c.log) ELSE c.log

\* C26: a render call of an EffectComposer with k >= 1 passes creates one
\* command encoder, encodes the scene on it first and then the passes in the
\* order they were added; the first pass gets the current texture of the canvas
\* as input and every later pass the texture of the pass before it; only the
\* last pass is rendered with isEnd = true and a target, the current texture
\* of the canvas; the encoder is submitted once, after all passes. With no
\* pass the call has the scene render itself and creates no encoder.
C26_ComposerRenderOrder ==
    [][composer'.frames = composer.frames + 1 =>
          IF Len(composer.passes) = 0
          THEN /\ RenderLog(composer') = <<[op |-> "scene.render", args |-> <<>>]>>
               /\ composer'.encoders = composer.encoders
               /\ composer'.submits = composer.submits
          ELSE /\ composer'.encoders = composer.encoders + 1
               /\ Len(RenderLog(composer')) = Len(composer.passes) + 3
               /\ RenderLog(composer')[1] =
                     [op |-> "createCommandEncoder", args |-> <<composer'.encoders>>]
               /\ RenderLog(composer')[2] =
                     [op |-> "renderScene", args |-> <<composer'.encoders>>]
               /\ \A i \in 1..Len(composer.passes) :
                     RenderLog(composer')[i + 2] =
                        [op |-> "pass.render",
                         args |-> <<i, composer'.encoders,
                                    IF i = 1 THEN <<"canvas", composer'.frames>>
                                    ELSE <<"pass", i - 1>>,
                                    i = Len(composer.passes),
                                    IF i = Len(composer.passes)
                                    THEN <<"canvas", composer'.frames>>
                                    ELSE <<"undefined", 0>> >>]
               /\ RenderLog(composer')[Len(composer.passes) + 3] =
                     [op |-> "submit", args |-> <<composer'.encoders>>]
               /\ composer'.submits = Append(composer.submits, composer'.encoders)]_vars

\* The second frame was rendered through three passes.
C26_Witness ==
    /\ composer.frames = 2
    /\ composer.encoders = 2
    /\ Len(composer.log) = 6
    /\ composer.log[4].op = "pass.render"
    /\ composer.log[4].args[3] = <<"pass", 1>>
    /\ ~composer.log[4].args[4]
    /\ composer.log[5].args[4]

----------------------------------------------------------------------------
(* C27 *)

\* C27: a render call leaves the record of the build as it is and returns a
\* record with as many pipeline sets as there are pipeline entries and as many
\* draws as there are draw entries; a render call that follows a render call
\* returns a record equal to the one before.
C27_RenderCountsIntoCopy ==
    [][lastOp' = "render" =>
          /\ record' = record
          /\ lastRecord'.pipelineCount = record.pipelineCount
          /\ lastRecord'.bindGroupCount = record.bindGroupCount
          /\ lastRecord'.pipelineSets = Len(renderPipelines)
          /\ lastRecord'.drawCount = Len(DrawEntries)
          /\ lastOp = "render" => lastRecord' = lastRecord]_vars

\* A render of two pipeline entries and three draw entries, after a build that
\* counted its pipelines.
C27_Witness ==
    /\ lastOp = "render"
    /\ thrown = "none"
    /\ record.pipelineCount > 0
    /\ record.pipelineSets = 0
    /\ lastRecord.pipelineSets = 2
    /\ lastRecord.drawCount = 3

----------------------------------------------------------------------------
(* C28 *)

\* C28: after any number of build calls a buffer view flagged BUFFER owns one
\* GPU buffer that is not destroyed, the one of its gpuBuffer field, and a
\* buffer view flagged TEXTURE was never uploaded as a GPU buffer.
C28_OneLiveBufferPerView ==
    builds > 0 =>
       \A v \in DOMAIN bufferViews :
          IF bufferViews[v].flag = "BUFFER"
          THEN /\ bufferViews[v].gpuBuffer # 0
               /\ bufferViews[v].alive = {bufferViews[v].gpuBuffer}
          ELSE /\ bufferViews[v].gpuBuffer = 0
               /\ bufferViews[v].alive = {}

\* After the second build the view flagged BUFFER has the buffer of that
\* build, next to a view flagged TEXTURE.
C28_Witness ==
    /\ builds = 2
    /\ \E v, t \in DOMAIN bufferViews :
          /\ bufferViews[v].flag = "BUFFER"
          /\ bufferViews[t].flag = "TEXTURE"
          /\ bufferViews[v].gpuBuffer > 1

----------------------------------------------------------------------------
(* C29 *)

\* The key of the pipeline is the JSON text of a list that holds the
\* bufferLayout, an array of objects whose fields are written in one order:
\* two layouts give the same text exactly when they are equal.
SortedByLocation(attributes) ==
    \A i, j \in DOMAIN attributes :
       i < j => attributes[i].shaderLocation < attributes[j].shaderLocation

\* The entry of gpuBuffers at the place of a layout is the binding of that
\* layout: its accessor is the accessor of one of the attributes of the layout
\* and its offset is the least offset of the attributes of the layout.
BindingOf(listing, layout, binding) ==
    /\ \E a \in DOMAIN listing :
          /\ listing[a].accessor = binding.accessor
          /\ \E k \in DOMAIN layout.attributes :
                layout.attributes[k].shaderLocation = listing[a].shaderLocation
    /\ \A k \in DOMAIN layout.attributes : layout.attributes[k].offset >= 0
    /\ \E k \in DOMAIN layout.attributes : layout.attributes[k].offset = 0

\* C29: two primitives with the same attributes listed in two orders get the
\* same vertex buffer layout from setPrimitive, and so the same pipeline key;
\* in each layout the attributes are sorted by shader location, the layouts
\* are sorted by the shader location of their first attribute, and the entry
\* of gpuBuffers at the place i is the binding of the layout at the place i.
C29_LayoutIndependentOfOrder ==
    (primitiveObjects # <<>> /\ \A p \in DOMAIN primitiveObjects : primitiveObjects[p].built) =>
       /\ primitiveObjects[1].bufferLayout = primitiveObjects[2].bufferLayout
       /\ \A p \in DOMAIN primitiveObjects :
             /\ \A i \in DOMAIN primitiveObjects[p].bufferLayout :
                   SortedByLocation(primitiveObjects[p].bufferLayout[i].attributes)
             /\ \A i, j \in DOMAIN primitiveObjects[p].bufferLayout :
                   i < j => primitiveObjects[p].bufferLayout[i].attributes[1].shaderLocation
                            < primitiveObjects[p].bufferLayout[j].attributes[1].shaderLocation
             /\ Len(primitiveObjects[p].gpuBuffers) = Len(primitiveObjects[p].bufferLayout)
             /\ \A i \in DOMAIN primitiveObjects[p].bufferLayout :
                   BindingOf(attributeLists[p], primitiveObjects[p].bufferLayout[i],
                             primitiveObjects[p].gpuBuffers[i])

====
